---- MODULE Spec2Model ----
(***************************************************************************)
(* Conversational memory of the Nova desktop assistant (pc_avatar):        *)
(* the controller's rolling context, the per-segment archive, compaction,  *)
(* the reply and export threads, and the vault rebuild.                    *)
(*                                                                         *)
(* Text is modelled character by character: a text is a sequence of        *)
(* one-character strings, so that strip, lower, split and substring search *)
(* are computed as the code computes them.                                 *)
(***************************************************************************)
EXTENDS Integers, Sequences, FiniteSets, TLC

(***************************************************************************)
(* Bounds of the model.                                                    *)
(***************************************************************************)
\* voice events the environment posts in one run of Spec
MaxVoice == 3
\* wall-clock seconds that pass in one run (clock \in 0..MaxClock)
MaxClock == 1
MaxAppendVoice == 21
MaxArchiveVoice == 2
MaxCompactVoice == 3
MaxShutdownVoice == 2
MaxSlugLen == 3
MaxHistoryLen == 2
MaxFaultVoice == 2
MaxCrashVoice == 2
MaxExportVoice == 2
MaxIndexVoice == 1
MaxStoreCalls == 2

MaxTurnVoice == 2

MaxByeVoice == 3

(***************************************************************************)
(* Program constants.                                                      *)
(***************************************************************************)
MAX_MESSAGES == 40
FALLBACK_WINDOW == 6
TRIM_KEEP == 4
SNIPPET_MAX == 140
SNIPPET_CUT == 137

(***************************************************************************)
(* Text primitives (Python str methods).                                   *)
(***************************************************************************)
WS == {" ", "\t", "\n", "\r"}

UPPER ==
    <<"A", "B", "C", "D", "E", "F", "G", "H", "I", "J", "K", "L", "M",
      "N", "O", "P", "Q", "R", "S", "T", "U", "V", "W", "X", "Y", "Z">>

LOWER ==
    <<"a", "b", "c", "d", "e", "f", "g", "h", "i", "j", "k", "l", "m",
      "n", "o", "p", "q", "r", "s", "t", "u", "v", "w", "x", "y", "z">>

DIGITS == {"0", "1", "2", "3", "4", "5", "6", "7", "8", "9"}

LowerChar(c) ==
    IF \E i \in 1..26 : UPPER[i] = c
    THEN LOWER[CHOOSE i \in 1..26 : UPPER[i] = c]
    ELSE c

\* str.lower()
Lower(s) == IF s = <<>> THEN <<>> ELSE [i \in 1..Len(s) |-> LowerChar(s[i])]

RECURSIVE LStripSet(_, _)
\* str.lstrip(chars)
LStripSet(s, cs) ==
    IF s # <<>> /\ Head(s) \in cs THEN LStripSet(Tail(s), cs) ELSE s

RECURSIVE RStripSet(_, _)
\* str.rstrip(chars)
RStripSet(s, cs) ==
    IF s # <<>> /\ s[Len(s)] \in cs
    THEN RStripSet(SubSeq(s, 1, Len(s) - 1), cs)
    ELSE s

\* str.strip(chars)
StripSet(s, cs) == RStripSet(LStripSet(s, cs), cs)

\* str.strip()
Strip(s) == StripSet(s, WS)

\* index of the first character of s that is in cs, Len(s)+1 when there is none
IndexOf(s, cs) ==
    IF \E i \in 1..Len(s) : s[i] \in cs
    THEN CHOOSE i \in 1..Len(s) : s[i] \in cs /\ \A j \in 1..(i - 1) : s[j] \notin cs
    ELSE Len(s) + 1

RECURSIVE SplitWs(_)
\* str.split()
SplitWs(s) ==
    LET t == LStripSet(s, WS) IN
    IF t = <<>> THEN <<>>
    ELSE LET n == IndexOf(t, WS) IN
         <<SubSeq(t, 1, n - 1)>> \o SplitWs(SubSeq(t, n, Len(t)))

RECURSIVE SplitLines(_)
\* str.splitlines()
SplitLines(s) ==
    IF s = <<>> THEN <<>>
    ELSE LET n == IndexOf(s, {"\n"}) IN
         <<SubSeq(s, 1, n - 1)>> \o SplitLines(SubSeq(s, n + 1, Len(s)))

\* sub in s
Contains(s, sub) ==
    \E i \in 0..(Len(s) - Len(sub)) : SubSeq(s, i + 1, i + Len(sub)) = sub

RECURSIVE JoinWith(_, _)
\* sep.join(parts)
JoinWith(parts, sep) ==
    IF parts = <<>> THEN <<>>
    ELSE IF Len(parts) = 1 THEN parts[1]
    ELSE parts[1] \o sep \o JoinWith(Tail(parts), sep)

\* s[-n:]
LastN(s, n) == IF Len(s) <= n THEN s ELSE SubSeq(s, Len(s) - n + 1, Len(s))

Min(a, b) == IF a <= b THEN a ELSE b

(***************************************************************************)
(* Strings of the program.                                                 *)
(***************************************************************************)
DEFAULT_SEGMENT ==
    <<"g", "e", "n", "e", "r", "a", "l">>

SCREEN_SEGMENT ==
    <<"s", "c", "r", "e", "e", "n", "-", "c", "o", "n", "t", "e", "x", "t">>

SYSTEM_SEGMENT ==
    <<"s", "y", "s", "t", "e", "m">>

SLUG_DEFAULT ==
    <<"d", "e", "f", "a", "u", "l", "t">>

KW_BYE ==
    <<"b", "y", "e">>

KW_BYE_NOVA ==
    <<"b", "y", "e", " ", "n", "o", "v", "a">>

KW_STOP ==
    <<"s", "t", "o", "p">>

KW_STOP_NOVA ==
    <<"s", "t", "o", "p", " ", "n", "o", "v", "a">>

BYE_REPLY ==
    <<"B", "y", "e", " ", "f", "o", "r", " ", "n", "o", "w", "!", " ", "W", "a", "v", "e", " ",
      "m", "e", " ", "o", "v", "e", "r", " ", "w", "h", "e", "n", " ", "y", "o", "u", " ", "w",
      "a", "n", "t", " ", "t", "o", " ", "c", "h", "a", "t", " ", "a", "g", "a", "i", "n", ".">>

STOP_REPLY ==
    <<"O", "k", "a", "y", ",", " ", "I", "'", "l", "l", " ", "s", "t", "a", "y", " ", "q", "u",
      "i", "e", "t", ".", " ", "T", "a", "p", " ", "t", "h", "e", " ", "m", "i", "c", " ", "b",
      "u", "t", "t", "o", "n", " ", "w", "h", "e", "n", " ", "y", "o", "u", " ", "w", "a", "n",
      "t", " ", "m", "e", " ", "l", "i", "s", "t", "e", "n", "i", "n", "g", " ", "a", "g", "a",
      "i", "n", ".">>

ERROR_PREFIX ==
    <<"[", "e", "r", "r", "o", "r", "]", " ">>

HIGHLIGHTS_HEADER ==
    <<"R", "e", "c", "e", "n", "t", " ", "h", "i", "g", "h", "l", "i", "g", "h", "t", "s", ":">>

YOU_PREFIX ==
    <<"-", " ", "Y", "o", "u", ":", " ">>

NOVA_PREFIX ==
    <<"-", " ", "N", "o", "v", "a", ":", " ">>

BYE_KEYWORDS == {KW_BYE, KW_BYE_NOVA}

STOP_KEYWORDS == {KW_STOP, KW_STOP_NOVA}

SEGMENT_RULES ==
    <<[segment |-> <<"s", "e", "s", "s", "i", "o", "n", "-", "c", "o", "n", "t", "r", "o", "l">>,
        keywords |-> {<<"b", "y", "e">>,
                      <<"b", "y", "e", " ", "n", "o", "v", "a">>,
                      <<"s", "t", "o", "p">>,
                      <<"s", "t", "o", "p", " ", "n", "o", "v", "a">>,
                      <<"g", "o", "o", "d", "b", "y", "e">>,
                      <<"s", "e", "e", " ", "y", "o", "u">>,
                      <<"l", "a", "t", "e", "r", " ", "n", "o", "v", "a">>}],
      [segment |-> <<"t", "a", "s", "k", "s">>,
        keywords |-> {<<"t", "o", "d", "o">>,
                      <<"t", "a", "s", "k">>,
                      <<"r", "e", "m", "i", "n", "d">>,
                      <<"s", "c", "h", "e", "d", "u", "l", "e">>,
                      <<"d", "e", "a", "d", "l", "i", "n", "e">>,
                      <<"p", "l", "a", "n">>}],
      [segment |-> <<"w", "o", "r", "k">>,
        keywords |-> {<<"p", "r", "o", "j", "e", "c", "t">>,
                      <<"c", "o", "d", "e">>,
                      <<"b", "u", "g">>,
                      <<"d", "e", "p", "l", "o", "y">>,
                      <<"m", "e", "e", "t", "i", "n", "g">>,
                      <<"c", "l", "i", "e", "n", "t">>}],
      [segment |-> <<"p", "e", "r", "s", "o", "n", "a", "l">>,
        keywords |-> {<<"f", "a", "m", "i", "l", "y">>,
                      <<"f", "r", "i", "e", "n", "d">>,
                      <<"b", "i", "r", "t", "h", "d", "a", "y">>,
                      <<"r", "e", "l", "a", "t", "i", "o", "n", "s", "h", "i", "p">>,
                      <<"v", "a", "c", "a", "t", "i", "o", "n">>,
                      <<"h", "o", "b", "b", "y">>}],
      [segment |-> <<"w", "e", "l", "l", "n", "e", "s", "s">>,
        keywords |-> {<<"h", "e", "a", "l", "t", "h">>,
                      <<"d", "o", "c", "t", "o", "r">>,
                      <<"e", "x", "e", "r", "c", "i", "s", "e">>,
                      <<"s", "l", "e", "e", "p">>,
                      <<"d", "i", "e", "t">>,
                      <<"m", "e", "d", "i", "t", "a", "t", "i", "o", "n">>}],
      [segment |-> <<"f", "i", "n", "a", "n", "c", "e">>,
        keywords |-> {<<"b", "u", "d", "g", "e", "t">>,
                      <<"m", "o", "n", "e", "y">>,
                      <<"i", "n", "v", "o", "i", "c", "e">>,
                      <<"b", "i", "l", "l">>,
                      <<"p", "a", "y">>,
                      <<"e", "x", "p", "e", "n", "s", "e">>}]>>


\* export requests made while an export thread may be ending
MaxRaceRequests == 3

\* utterances of the reply lifecycle with its scheduling
MaxLiveVoice == 2

\* utterances spoken while replies are being generated
MaxBusyVoice == 3

\* shutdown requests handled after the first one
MaxRepeatedShutdown == 2
(***************************************************************************)
(* context_store.py: sanitising, slugs, facts, the segment store.          *)
(***************************************************************************)
ROLES == {"user", "assistant"}

\* _sanitize without its test of the content
SanitizeRolesOnly(messages) ==
    LET kept == SelectSeq(messages, LAMBDA e : e.role \in ROLES)
    IN  IF kept = <<>> THEN <<>>
        ELSE [i \in 1..Len(kept) |->
                 [role |-> kept[i].role, content |-> Strip(kept[i].content)]]

\* _sanitize: drop entries with a disallowed role or blank content, trim the rest
Sanitize(messages) ==
    LET Ok(e) == e.role \in ROLES /\ Strip(e.content) # <<>>
        kept == SelectSeq(messages, Ok)
    IN  IF kept = <<>> THEN <<>>
        ELSE [i \in 1..Len(kept) |->
                 [role |-> kept[i].role, content |-> Strip(kept[i].content)]]

SLUG_OK == {LOWER[i] : i \in 1..26} \cup DIGITS \cup {"_", "-"}

RECURSIVE DropBad(_)
DropBad(s) == IF s # <<>> /\ Head(s) \notin SLUG_OK THEN DropBad(Tail(s)) ELSE s

RECURSIVE SubBadRuns(_)
\* _SEGMENT_SLUG_RE.sub("-", base): every run of other characters becomes one "-"
SubBadRuns(s) ==
    IF s = <<>> THEN <<>>
    ELSE IF Head(s) \in SLUG_OK THEN <<Head(s)>> \o SubBadRuns(Tail(s))
    ELSE <<"-">> \o SubBadRuns(DropBad(Tail(s)))

\* str.replace(" ", "-")
DashSpaces(s) ==
    IF s = <<>> THEN <<>> ELSE [i \in 1..Len(s) |-> IF s[i] = " " THEN "-" ELSE s[i]]

\* base or "default"
OrDefaultSlug(base) == IF base = <<>> THEN SLUG_DEFAULT ELSE base

\* _segment_slug without its strip("-_")
SegmentSlugNoTrim(segment) ==
    OrDefaultSlug(SubBadRuns(DashSpaces(Lower(Strip(segment)))))

\* _segment_slug
SegmentSlug(segment) ==
    OrDefaultSlug(StripSet(SubBadRuns(DashSpaces(Lower(Strip(segment)))), {"-", "_"}))

\* _prepare_metadata: the values of the model (booleans) are JSON values and are kept
PrepareMetadata(metadata) == metadata

FACT_MARKERS == {"-", "*", ".", " ", "\t"} \cup DIGITS

RECURSIVE ExtractFactsFrom(_, _, _)
ExtractFactsFrom(lines, seen, facts) ==
    IF lines = <<>> THEN facts
    ELSE LET t1 == Strip(Head(lines))
             t2 == Strip(LStripSet(t1, FACT_MARKERS))
             key == Lower(t2)
         IN  IF t1 = <<>> \/ t2 = <<>> \/ key \in seen
             THEN ExtractFactsFrom(Tail(lines), seen, facts)
             ELSE ExtractFactsFrom(Tail(lines), seen \cup {key}, Append(facts, t2))

\* _extract_facts without the lstrip of the bullet and number markers
ExtractFactsKeepMarkers(summary) ==
    SelectSeq(SplitLines(summary), LAMBDA line : Strip(line) # <<>>)

\* _extract_facts
ExtractFacts(summary) == ExtractFactsFrom(SplitLines(summary), {}, <<>>)

\* the name of a raw file: <ts_compact>_<role>_<digest>.json, the digest being
\* sha1(role:ts_iso:content)[:8], a function of the three (taken as injective)
RawFilename(role, content, now) ==
    [ts |-> now, role |-> role, digest |-> <<role, now, content>>]

\* the segment directory logs/context/<slug> exists
HasSegmentDir(st, slug) ==
    \/ slug \in DOMAIN st.manifests
    \/ slug \in DOMAIN st.summaries
    \/ \E k \in DOMAIN st.archive : k[1] = slug

\* the filesystem operation op on the directory of slug fails with OSError; a stat
\* fails on a directory that exists only (a missing one is ENOENT, which
\* Path.exists() turns into False)
Fails(st, op, slug) ==
    op \in st.faults /\ (op = "stat_manifest" => HasSegmentDir(st, slug))

\* _ensure_manifest without its test of manifest.exists(): written at every touch
EnsureManifestAlways(st, segment, slug, now) ==
    IF Fails(st, "stat_manifest", slug) THEN [st EXCEPT !.raised = TRUE]
    ELSE IF Fails(st, "write_manifest", slug) THEN st
    ELSE [st EXCEPT !.manifests =
                        (slug :> [segment |-> segment, slug |-> slug, created |-> now]) @@ @]

\* SegmentStore._ensure_manifest: manifest.exists() is outside the try, so its
\* OSError (other than ENOENT, ENOTDIR, EBADF, ELOOP) leaves the call
EnsureManifest(st, segment, slug, now) ==
    IF Fails(st, "stat_manifest", slug) THEN [st EXCEPT !.raised = TRUE]
    ELSE IF slug \in DOMAIN st.manifests \/ Fails(st, "write_manifest", slug) THEN st
    ELSE [st EXCEPT !.manifests =
                        (slug :> [segment |-> segment, slug |-> slug, created |-> now]) @@ @]

\* SegmentStore.record_raw once the slug is derived: the write of the raw file, which
\* replaces a file of the same name, then the manifest
WriteRaw(st, segment, slug, role, content, metadata, now) ==
    EnsureManifest(
        [st EXCEPT !.archive =
                       (<<slug, RawFilename(role, content, now)>>
                            :> [role |-> role, content |-> content, text |-> content,
                                ts |-> now, segment |-> segment, slug |-> slug,
                                metadata |-> PrepareMetadata(metadata)]) @@ st.archive,
                   !.nRecorded = st.nRecorded + 1,
                   !.recorded = Append(st.recorded, <<slug, RawFilename(role, content, now)>>)],
        segment, slug, now)

\* SegmentStore.record_raw from the slug on: nothing is written when the mkdir or
\* the write of the raw file fails
RecordRawIn(st, segment, slug, role, content, metadata, now) ==
    IF Fails(st, "mkdir_raw", slug) \/ Fails(st, "write_raw", slug) THEN st
    ELSE WriteRaw(st, segment, slug, role, content, metadata, now)

\* SegmentStore.record_raw, on the store part of st
RecordRaw(st, segment, role, content, metadata, now) ==
    RecordRawIn(st, segment, SegmentSlug(segment), role, content, metadata, now)

\* update_summary(..., updated=None): no timestamp is given
NO_UPDATED == 0 - 1

\* updated or _utc_iso()
UpdatedOr(updated, now) == IF updated = NO_UPDATED THEN now ELSE updated

\* update_summary that keeps the facts of the summary.json it finds
WriteSummaryKeepsFacts(st, segment, slug, summary, facts, updated, now) ==
    EnsureManifest(
        IF Fails(st, "write_summary", slug) THEN st
        ELSE [st EXCEPT !.summaries =
                            (slug :> [segment |-> segment, slug |-> slug,
                                      summary |-> summary,
                                      facts |-> IF slug \in DOMAIN st.summaries
                                                THEN st.summaries[slug].facts \o facts
                                                ELSE facts,
                                      updated |-> UpdatedOr(updated, now)]) @@ st.summaries],
        segment, slug, now)

\* SegmentStore.update_summary once the slug is derived and the summary stripped:
\* the write of summary.json, whose failure is passed over, then the manifest
WriteSummaryAt(st, segment, slug, summary, facts, updated, now) ==
    EnsureManifest(
        IF Fails(st, "write_summary", slug) THEN st
        ELSE [st EXCEPT !.summaries =
                            (slug :> [segment |-> segment, slug |-> slug,
                                      summary |-> summary, facts |-> facts,
                                      updated |-> UpdatedOr(updated, now)]) @@ st.summaries],
        segment, slug, now)

\* SegmentStore.update_summary from the slug on
UpdateSummaryInAt(st, segment, slug, summary, facts, updated, now) ==
    IF Fails(st, "mkdir_seg", slug) THEN st
    ELSE WriteSummaryAt(st, segment, slug, summary, facts, updated, now)

\* update_summary without its test of a blank summary
UpdateSummaryOfBlank(st, segment, summary, facts, updated, now) ==
    UpdateSummaryInAt(st, segment, SegmentSlug(segment), Strip(summary), facts, updated, now)

\* SegmentStore.update_summary
UpdateSummaryAt(st, segment, summary, facts, updated, now) ==
    IF Strip(summary) = <<>> THEN st
    ELSE UpdateSummaryInAt(st, segment, SegmentSlug(segment), Strip(summary), facts,
                           updated, now)

\* SegmentStore.update_summary, no timestamp being given
WriteSummary(st, segment, slug, summary, facts, now) ==
    WriteSummaryAt(st, segment, slug, summary, facts, NO_UPDATED, now)

UpdateSummaryIn(st, segment, slug, summary, facts, now) ==
    UpdateSummaryInAt(st, segment, slug, summary, facts, NO_UPDATED, now)

UpdateSummary(st, segment, summary, facts, now) ==
    UpdateSummaryAt(st, segment, summary, facts, NO_UPDATED, now)

\* save_context: nothing is written when the mkdir or the write fails
SaveContext(st, messages) ==
    IF "mkdir_logs" \in st.faults \/ "write_snapshot" \in st.faults THEN st
    ELSE [st EXCEPT !.snapshot = LastN(Sanitize(messages), MAX_MESSAGES),
                    !.snapshotKind = "array", !.savedFrom = <<messages>>]

\* a file that holds JSON, by what reading it gives: it is missing, Path.exists()
\* raises OSError (unreachable: its directory cannot be searched), read_text raises
\* OSError (unreadable), read_text raises UnicodeDecodeError (undecodable: bytes that
\* are not UTF-8), json.loads raises JSONDecodeError (invalid), the document is not a
\* list (object), or it is a list (array, data its elements)
FILE_KINDS ==
    {"missing", "unreachable", "unreadable", "undecodable", "invalid", "object", "array"}

NoFile == [kind |-> "missing", data |-> <<>>]

\* logs/conversation.json as such a file
SnapshotFile(st) == [kind |-> st.snapshotKind, data |-> st.snapshot]

\* load_context: the list is returned, and saved first when it is a non-empty one of
\* the legacy file
Loaded(st, cleaned, isLegacy) ==
    [(IF isLegacy /\ cleaned # <<>> THEN SaveContext(st, cleaned) ELSE st)
     EXCEPT !.conversation = cleaned]

\* load_context that returns the list as it was found
LoadFromAsFound(st, file, isLegacy) ==
    IF file.kind = "undecodable" THEN [st EXCEPT !.raised = TRUE]
    ELSE IF file.kind # "array" THEN [st EXCEPT !.conversation = <<>>]
    ELSE Loaded(st, LastN(file.data, MAX_MESSAGES), isLegacy)

\* load_context: the one candidate is read; OSError and JSONDecodeError are passed
\* over, UnicodeDecodeError is neither and leaves the call
LoadFrom(st, file, isLegacy) ==
    IF file.kind = "undecodable" THEN [st EXCEPT !.raised = TRUE]
    ELSE IF file.kind # "array" THEN [st EXCEPT !.conversation = <<>>]
    ELSE Loaded(st, LastN(Sanitize(file.data), MAX_MESSAGES), isLegacy)

\* load_context, the list it returns becoming the conversation of st
LoadContext(st) ==
    IF st.snapshotKind = "unreachable" THEN [st EXCEPT !.raised = TRUE]
    ELSE IF st.snapshotKind # "missing" THEN LoadFrom(st, SnapshotFile(st), FALSE)
    ELSE IF st.legacy.kind = "unreachable" THEN [st EXCEPT !.raised = TRUE]
    ELSE IF st.legacy.kind # "missing" THEN LoadFrom(st, st.legacy, TRUE)
    ELSE [st EXCEPT !.conversation = <<>>]

\* a call of save_context that is reached only when nothing was raised before it
SaveUnlessRaised(st, messages) == IF st.raised THEN st ELSE SaveContext(st, messages)

\* append_message: the snapshot is saved when auto_save is set
SavedIf(autoSave, st) == IF autoSave THEN SaveUnlessRaised(st, st.conversation) ELSE st

\* append_message that records the raw entry only when auto_save is set
AppendMessageArchivesIfSaved(st, role, content, autoSave, segment, metadata, now) ==
    IF autoSave
    THEN SaveUnlessRaised(
             RecordRaw([st EXCEPT !.conversation =
                                      Append(@, [role |-> role, content |-> Strip(content)])],
                       IF segment = <<>> THEN DEFAULT_SEGMENT ELSE segment,
                       role, Strip(content), metadata, now),
             Append(st.conversation, [role |-> role, content |-> Strip(content)]))
    ELSE [st EXCEPT !.conversation = Append(@, [role |-> role, content |-> Strip(content)])]

\* append_message
AppendMessage(st, role, content, autoSave, segment, metadata, now) ==
    SavedIf(autoSave,
            RecordRaw([st EXCEPT !.conversation =
                                     Append(@, [role |-> role, content |-> Strip(content)])],
                      IF segment = <<>> THEN DEFAULT_SEGMENT ELSE segment,
                      role, Strip(content), metadata, now))

\* the facts argument of update_segment_summary: None, or a list
NO_FACTS == [given |-> FALSE]

GivenFacts(facts) == [given |-> TRUE, facts |-> facts]

\* update_segment_summary: parsed_facts
ParsedFacts(facts, summary) == IF facts.given THEN facts.facts ELSE ExtractFacts(summary)

\* update_segment_summary, its facts and updated arguments given or not
UpdateSegmentSummaryWith(st, segment, summary, facts, updated, now) ==
    UpdateSummaryAt(st, segment, summary, ParsedFacts(facts, summary), updated, now)

\* update_segment_summary (facts not supplied)
UpdateSegmentSummary(st, segment, summary, now) ==
    UpdateSummary(st, segment, summary, ExtractFacts(summary), now)

(***************************************************************************)
(* ai_brain.py: the summarizer.                                            *)
(***************************************************************************)
ELLIPSIS == "<ellipsis>"

Snippet(content) ==
    LET s == Strip(content) IN
    IF Len(s) > SNIPPET_MAX
    THEN Append(RStripSet(SubSeq(s, 1, SNIPPET_CUT), WS), ELLIPSIS)
    ELSE s

RECURSIVE FallbackSnippets(_)
FallbackSnippets(entries) ==
    IF entries = <<>> THEN <<>>
    ELSE LET e == Head(entries) IN
         IF e.role \notin ROLES \/ Strip(e.content) = <<>>
         THEN FallbackSnippets(Tail(entries))
         ELSE <<(IF e.role = "user" THEN YOU_PREFIX ELSE NOVA_PREFIX) \o Snippet(e.content)>>
              \o FallbackSnippets(Tail(entries))

\* _fallback_summary; <<>> stands for None
FallbackSummary(history) ==
    LET snippets == FallbackSnippets(LastN(history, FALLBACK_WINDOW)) IN
    IF history = <<>> \/ snippets = <<>> THEN <<>>
    ELSE HIGHLIGHTS_HEADER \o <<"\n">> \o JoinWith(snippets, <<"\n">>)

\* summarize_history without its local fallback: None when the oracle gave nothing
SummarizeHistoryNoFallback(history, oracle) ==
    IF history = <<>> THEN <<>> ELSE Strip(oracle)

\* summarize_history; oracle is what the model call gave: <<>> when the client is
\* missing, the call raised or the output was empty, and the output text otherwise
SummarizeHistory(history, oracle) ==
    IF history = <<>> THEN <<>>
    ELSE IF oracle # <<>> THEN Strip(oracle)
    ELSE FallbackSummary(history)

(***************************************************************************)
(* main.py: segment inference.                                             *)
(***************************************************************************)
RECURSIVE FirstMatchLast(_, _)
\* _infer_segment with a loop that does not return at the first rule that matches
FirstMatchLast(text, rules) ==
    IF rules = <<>> THEN <<>>
    ELSE IF FirstMatchLast(text, Tail(rules)) # <<>> THEN FirstMatchLast(text, Tail(rules))
    ELSE IF \E k \in Head(rules).keywords : Contains(text, k) THEN Head(rules).segment
    ELSE <<>>

RECURSIVE FirstMatch(_, _)
FirstMatch(text, rules) ==
    IF rules = <<>> THEN <<>>
    ELSE IF \E k \in Head(rules).keywords : Contains(text, k)
         THEN Head(rules).segment
         ELSE FirstMatch(text, Tail(rules))

\* _infer_segment: the segment of the first rule that matches, or the fallback
MatchOr(m, role, include_screen) ==
    IF m # <<>> THEN m
    ELSE IF include_screen /\ role = "user" THEN SCREEN_SEGMENT
    ELSE DEFAULT_SEGMENT

\* _infer_segment with the rule list as an argument
InferSegmentWith(rules, role, content, include_screen) ==
    MatchOr(FirstMatch(Lower(content), rules), role, include_screen)

\* AppController._infer_segment
InferSegment(role, content, include_screen) ==
    MatchOr(FirstMatch(Lower(content), SEGMENT_RULES), role, include_screen)

\* _handle_voice_text: the last word of the utterance, without its punctuation
LastWord(parts) ==
    IF parts = <<>> THEN <<>>
    ELSE Lower(RStripSet(parts[Len(parts)], {".", ",", "!", "?", ";", ":", "\"", "'"}))

\* _handle_voice_text: command_type from the lowered text and the last word
CommandOf(text_lower, last_word) ==
    IF text_lower \in BYE_KEYWORDS THEN KW_BYE
    ELSE IF text_lower \in STOP_KEYWORDS THEN KW_STOP
    ELSE IF last_word \in {KW_BYE, KW_STOP} THEN last_word
    ELSE <<>>

\* the command an utterance is: "bye", "stop" or <<>> (none)
CommandType(cleaned) == CommandOf(Lower(cleaned), LastWord(SplitWs(cleaned)))
(***************************************************************************)
(* logs/json_to_obsidian.py: rendering of the vault.  A note is a record   *)
(* of the fields its Markdown text is made of.                             *)
(***************************************************************************)
\* the characters in code-point order (the backquote left out, the three
\* non-ASCII ones last)
CHAR_ORDER ==
    <<"\t", "\n", "\r", " ", "!", "\"", "#", "$", "%", "&", "'", "(", ")", "*", "+", ",",
      "-", ".", "/", "0", "1", "2", "3", "4", "5", "6", "7", "8", "9", ":", ";", "<",
      "=", ">", "?", "@", "A", "B", "C", "D", "E", "F", "G", "H", "I", "J", "K", "L",
      "M", "N", "O", "P", "Q", "R", "S", "T", "U", "V", "W", "X", "Y", "Z", "[", "\\",
      "]", "^", "_", "a", "b", "c", "d", "e", "f", "g", "h", "i", "j", "k", "l",
      "m", "n", "o", "p", "q", "r", "s", "t", "u", "v", "w", "x", "y", "z", "{", "|",
      "}", "~", "<bullet>", "<rsquo>", "<ellipsis>">>

STOP_WORDS ==
    {<<"t", "h", "e">>,
     <<"a", "n", "d">>,
     <<"t", "h", "a", "t">>,
     <<"w", "i", "t", "h">>,
     <<"f", "r", "o", "m">>,
     <<"t", "h", "i", "s">>,
     <<"t", "h", "e", "y">>,
     <<"h", "a", "v", "e">>,
     <<"w", "h", "a", "t">>,
     <<"w", "h", "a", "t", "s">>,
     <<"l", "e", "t", "s">>,
     <<"y", "o", "u", "r">>,
     <<"a", "b", "o", "u", "t">>,
     <<"i", "n", "t", "o">>,
     <<"t", "h", "e", "r", "e">>,
     <<"s", "o", "m", "e">>,
     <<"l", "i", "k", "e">>,
     <<"j", "u", "s", "t">>,
     <<"y", "o", "u", "'", "r", "e">>,
     <<"y", "o", "u", "r", "e">>,
     <<"g", "o", "i", "n", "g">>,
     <<"o", "v", "e", "r">>,
     <<"h", "e", "r", "e">>,
     <<"w", "a", "n", "t">>,
     <<"n", "e", "e", "d">>,
     <<"r", "e", "a", "l", "l", "y">>,
     <<"s", "u", "r", "e">>,
     <<"o", "k", "a", "y">>,
     <<"c", "a", "n", "t">>,
     <<"c", "a", "n", "'", "t">>,
     <<"w", "e", "r", "e">>,
     <<"w", "e", "'", "r", "e">>,
     <<"b", "a", "c", "k">>,
     <<"l", "e", "f", "t">>,
     <<"r", "i", "g", "h", "t">>,
     <<"s", "t", "i", "l", "l">>,
     <<"l", "o", "o", "k">>,
     <<"l", "o", "o", "k", "s">>,
     <<"i", "t", "'", "s">>,
     <<"i", "t", "s">>,
     <<"s", "o", "n", "g">>,
     <<"t", "h", "e", "r", "e", "'", "s">>,
     <<"t", "h", "e", "r", "e", "s">>,
     <<"m", "a", "y", "b", "e">>,
     <<"g", "o", "n", "n", "a">>,
     <<"t", "h", "i", "n", "g">>}

BOILERPLATE ==
    {<<"s", "u", "r", "e", " ", "t", "h", "i", "n", "g", "!", " ", "h", "e", "r", "e", "<rsquo>", "s", " ", "a", " ", "q", "u", "i", "c", "k", " ", "s", "u", "m", "m", "a", "r", "y", ":">>,
     <<"s", "u", "r", "e", " ", "t", "h", "i", "n", "g", "!", " ", "h", "e", "r", "e", "'", "s", " ", "a", " ", "q", "u", "i", "c", "k", " ", "s", "u", "m", "m", "a", "r", "y", ":">>,
     <<"l", "e", "t", " ", "m", "e", " ", "k", "n", "o", "w", " ", "i", "f", " ", "y", "o", "u", " ", "n", "e", "e", "d", " ", "a", "n", "y", "t", "h", "i", "n", "g", " ", "e", "l", "s", "e", "!">>,
     <<"a", "s", "s", "i", "s", "t", "a", "n", "c", "e", " ", "r", "e", "a", "d", "y", ":", " ", "i", "<rsquo>", "m", " ", "h", "e", "r", "e", " ", "t", "o", " ", "h", "e", "l", "p", " ", "w", "i", "t", "h", " ", "c", "o", "d", "i", "n", "g", " ", "q", "u", "e", "s", "t", "i", "o", "n", "s", " ", "o", "r", " ", "f", "e", "a", "t", "u", "r", "e", "s", " ", "y", "o", "u", " ", "w", "a", "n", "t", " ", "t", "o", " ", "i", "m", "p", "l", "e", "m", "e", "n", "t", "!">>,
     <<"a", "s", "s", "i", "s", "t", "a", "n", "c", "e", " ", "r", "e", "a", "d", "y", ":", " ", "i", "'", "m", " ", "h", "e", "r", "e", " ", "t", "o", " ", "h", "e", "l", "p", " ", "w", "i", "t", "h", " ", "c", "o", "d", "i", "n", "g", " ", "q", "u", "e", "s", "t", "i", "o", "n", "s", " ", "o", "r", " ", "f", "e", "a", "t", "u", "r", "e", "s", " ", "y", "o", "u", " ", "w", "a", "n", "t", " ", "t", "o", " ", "i", "m", "p", "l", "e", "m", "e", "n", "t", "!">>}

HELP_PREFIX_1 ==
    <<"i", "'", "m", " ", "h", "e", "r", "e", " ", "t", "o", " ", "h", "e", "l", "p">>

HELP_PREFIX_2 ==
    <<"i", "m", " ", "h", "e", "r", "e", " ", "t", "o", " ", "h", "e", "l", "p">>

UNTITLED ==
    <<"U", "n", "t", "i", "t", "l", "e", "d", " ", "n", "o", "t", "e">>

SUMMARY_SUFFIX ==
    <<" ", "S", "u", "m", "m", "a", "r", "y">>

RSQUO == "<rsquo>"

BULLET == "<bullet>"

CharRank(c) ==
    IF \E i \in 1..Len(CHAR_ORDER) : CHAR_ORDER[i] = c
    THEN CHOOSE i \in 1..Len(CHAR_ORDER) : CHAR_ORDER[i] = c
    ELSE Len(CHAR_ORDER) + 1

RECURSIVE TextLess(_, _)
\* a < b for two texts
TextLess(a, b) ==
    IF b = <<>> THEN FALSE
    ELSE IF a = <<>> THEN TRUE
    ELSE IF Head(a) = Head(b) THEN TextLess(Tail(a), Tail(b))
    ELSE CharRank(Head(a)) < CharRank(Head(b))

IsLetter(c) == \E i \in 1..26 : c = UPPER[i] \/ c = LOWER[i]

UpperChar(c) ==
    IF \E i \in 1..26 : LOWER[i] = c
    THEN UPPER[CHOOSE i \in 1..26 : LOWER[i] = c]
    ELSE c

\* str.title(): a letter that follows a non-letter is upper-cased, the others lower-cased
Title(s) ==
    IF s = <<>> THEN <<>>
    ELSE [i \in 1..Len(s) |->
             IF i = 1 \/ ~IsLetter(s[i - 1]) THEN UpperChar(s[i]) ELSE LowerChar(s[i])]

\* str.replace(a, b) for a single character a
ReplaceChar(s, a, b) ==
    IF s = <<>> THEN <<>> ELSE [i \in 1..Len(s) |-> IF s[i] = a THEN b ELSE s[i]]

RECURSIVE RemoveStars(_)
\* str.replace("**", "")
RemoveStars(s) ==
    IF Len(s) < 2 THEN s
    ELSE IF s[1] = "*" /\ s[2] = "*" THEN RemoveStars(SubSeq(s, 3, Len(s)))
    ELSE <<Head(s)>> \o RemoveStars(Tail(s))

StartsWith(s, p) == Len(s) >= Len(p) /\ SubSeq(s, 1, Len(p)) = p

\* tidy_lines: one line without its emphasis marks, its whitespace collapsed
TidyClean(line) == JoinWith(SplitWs(ReplaceChar(RemoveStars(line), RSQUO, "'")), <<" ">>)

\* tidy_lines: whether a cleaned line is left out
TidySkip(cleaned, lower, seen) ==
    \/ cleaned = <<>>
    \/ lower \in BOILERPLATE
    \/ (lower[Len(lower)] = ":" /\ Len(SplitWs(cleaned)) <= 6)
    \/ StartsWith(lower, HELP_PREFIX_1)
    \/ StartsWith(lower, HELP_PREFIX_2)
    \/ lower \in seen

RECURSIVE TidyFrom(_, _, _)
TidyKeep(lines, cleaned, lower, seen, out) ==
    IF TidySkip(cleaned, lower, seen) THEN TidyFrom(Tail(lines), seen, out)
    ELSE TidyFrom(Tail(lines), seen \cup {lower}, Append(out, cleaned))

TidyFrom(lines, seen, out) ==
    IF lines = <<>> THEN out
    ELSE TidyKeep(lines, TidyClean(Head(lines)), Lower(TidyClean(Head(lines))), seen, out)

\* tidy_lines
TidyLines(lines) == TidyFrom(lines, {}, <<>>)

BULLET_MARKERS == {"-", "*", BULLET, ".", " ", "\t"} \cup DIGITS

RECURSIVE BulletLines(_)
BulletLines(lines) ==
    IF lines = <<>> THEN <<>>
    ELSE LET c1 == Strip(Head(lines))
             c2 == Strip(LStripSet(c1, BULLET_MARKERS))
         IN  IF c1 = <<>> \/ c2 = <<>> THEN BulletLines(Tail(lines))
             ELSE <<c2>> \o BulletLines(Tail(lines))

\* bulletize
Bulletize(text) == TidyLines(BulletLines(SplitLines(text)))

\* first_line_snip
FirstLineSnip(value, limit) ==
    LET stripped == Strip(value) IN
    IF stripped = <<>> THEN UNTITLED
    ELSE LET first_line == Strip(SplitLines(stripped)[1]) IN
         IF Len(first_line) > limit
         THEN SubSeq(first_line, 1, limit - 2) \o <<".", ".">>
         ELSE first_line

TOKEN_CHARS == {LOWER[i] : i \in 1..26} \cup {UPPER[i] : i \in 1..26} \cup DIGITS \cup {"'"}

RECURSIVE Tokens(_)
\* re.findall(r"[A-Za-z0-9']{3,}", s): the maximal runs of token characters of length >= 3
Tokens(s) ==
    LET t == IF \E i \in 1..Len(s) : s[i] \in TOKEN_CHARS
             THEN SubSeq(s, CHOOSE i \in 1..Len(s) :
                                s[i] \in TOKEN_CHARS /\ \A j \in 1..(i - 1) : s[j] \notin TOKEN_CHARS,
                         Len(s))
             ELSE <<>>
    IN  IF t = <<>> THEN <<>>
        ELSE LET n == IF \E i \in 1..Len(t) : t[i] \notin TOKEN_CHARS
                      THEN CHOOSE i \in 1..Len(t) :
                               t[i] \notin TOKEN_CHARS /\ \A j \in 1..(i - 1) : t[j] \in TOKEN_CHARS
                      ELSE Len(t) + 1
                 tok == SubSeq(t, 1, n - 1)
                 rest == Tokens(SubSeq(t, n, Len(t)))
             IN  IF Len(tok) >= 3 THEN <<tok>> \o rest ELSE rest

NotApostrophe(c) == c # "'"

RECURSIVE KeywordsFrom(_, _, _, _)
KeywordsFrom(tokens, seen, out, limit) ==
    IF tokens = <<>> \/ Len(out) >= limit THEN out
    ELSE LET token_clean == SelectSeq(Head(tokens), NotApostrophe)
             normalized == token_clean
         IN  IF token_clean \in STOP_WORDS \/ Len(normalized) <= 3 \/ normalized \in seen
             THEN KeywordsFrom(Tail(tokens), seen, out, limit)
             ELSE KeywordsFrom(Tail(tokens), seen \cup {normalized},
                               Append(out, normalized), limit)

\* extract_keywords that does not stop at limit keywords
ExtractKeywordsAll(text, limit) == KeywordsFrom(Tokens(Lower(text)), {}, <<>>, Len(text))

\* extract_keywords
ExtractKeywords(text, limit) == KeywordsFrom(Tokens(Lower(text)), {}, <<>>, limit)

TXT_BUG ==
    <<"b", "u", "g">>

TXT_BYE ==
    <<"b", "y", "e">>

TXT_HI ==
    <<"h", "i">>

TXT_OCR ==
    <<"o", "c", "r", " ", "f", "a", "i", "l", "e", "d">>

DIGEST_HELLO ==
    <<"-", " ", "s", "a", "i", "d", " ", "h", "e", "l", "l", "o">>

FACT_HELLO ==
    <<"s", "a", "i", "d", " ", "h", "e", "l", "l", "o">>

\* a reply with a character outside ASCII: "it's" with a typographic apostrophe
TXT_QUOTE == <<"i", "t", RSQUO, "s">>

TXT_BUG_BYE ==
    <<"b", "u", "g", " ", "b", "y", "e">>
NoTimestamp == 0 - 1

\* parse_timestamp: a stored timestamp that parses is kept; a missing or invalid
\* one is replaced by the wall clock at the time of the call
ParseTimestamp(value, now) ==
    LET dt == IF value >= 0 THEN value ELSE now IN
    [iso |-> dt, date |-> dt \div 86400, time |-> (dt % 86400) \div 60]

\* list order of two raw file names <ts>_<role>_<digest>.json; the order of two
\* digests is the order of two hashes, taken here as the order of the contents
RawNameLess(a, b) ==
    \/ a.ts < b.ts
    \/ a.ts = b.ts /\ a.role = "assistant" /\ b.role = "user"
    \/ a.ts = b.ts /\ a.role = b.role /\ TextLess(a.digest[3], b.digest[3])

RECURSIVE SortedRawNames(_)
SortedRawNames(names) ==
    IF names = {} THEN <<>>
    ELSE LET m == CHOOSE x \in names : \A y \in names \ {x} : RawNameLess(x, y) IN
         <<m>> \o SortedRawNames(names \ {m})

RECURSIVE SortedTexts(_)
SortedTexts(texts) ==
    IF texts = {} THEN <<>>
    ELSE LET m == CHOOSE x \in texts : \A y \in texts \ {x} : TextLess(x, y) IN
         <<m>> \o SortedTexts(texts \ {m})

\* the segment directories under the context root
SegmentDirs(archive, manifests, summaries) ==
    {k[1] : k \in DOMAIN archive} \cup DOMAIN manifests \cup DOMAIN summaries

\* list_segments
ListSegments(archive, manifests, summaries) ==
    SortedTexts(SegmentDirs(archive, manifests, summaries))

\* a file whose write was cut short: json.loads of what it holds raises
TORN == [torn |-> TRUE]

\* collect_raw: the raw files of a segment that json.loads can read
ReadableRaw(archive, segment) ==
    {x \in DOMAIN archive : x[1] = segment /\ archive[x] # TORN}

\* read_summary gives the content of summary.json: the file is there and parses
HasSummary(summaries, segment) ==
    segment \in DOMAIN summaries /\ summaries[segment] # TORN

\* collect_raw that keeps the last file only
CollectRawLast(archive, segment) ==
    LET names == SortedRawNames({k[2] : k \in ReadableRaw(archive, segment)}) IN
    IF names = <<>> THEN <<>>
    ELSE <<[name |-> names[Len(names)], payload |-> archive[<<segment, names[Len(names)]>>]]>>

\* collect_raw: (name, payload) of the raw files of a segment, sorted by name, the
\* files that do not parse being passed over
CollectRaw(archive, segment) ==
    LET names == SortedRawNames({k[2] : k \in ReadableRaw(archive, segment)}) IN
    IF names = <<>> THEN <<>>
    ELSE [i \in 1..Len(names) |->
             [name |-> names[i], payload |-> archive[<<segment, names[i]>>]]]

\* the display role of an entry
RoleDisplay(role) == IF role = "user" THEN "User" ELSE "Assistant"

RoleText(role_display) ==
    IF role_display = "User" THEN <<"U", "s", "e", "r">>
    ELSE <<"A", "s", "s", "i", "s", "t", "a", "n", "t">>

\* one entry of prepare_raw_entries, its text, timestamp, snippet and keywords given
RawEntry(segment, raw_name, payload, text, stamp, snippet, keywords) ==
    [raw_name |-> raw_name, text |-> text, iso |-> stamp.iso,
     date |-> stamp.date, time |-> stamp.time, role |-> RoleDisplay(payload.role),
     snippet |-> snippet, keywords |-> keywords,
     keywords_line |-> JoinWith(SubSeq(keywords, 1, Min(4, Len(keywords))), <<",", " ">>),
     quick_summary |-> snippet,
     note_title |-> <<stamp.date, stamp.time, RoleDisplay(payload.role)>>,
     file_stem |-> [date |-> stamp.date, time |-> stamp.time,
                    role |-> RoleDisplay(payload.role),
                    digest |-> <<raw_name, stamp.iso, text>>],
     link_path |-> <<segment, [date |-> stamp.date, time |-> stamp.time,
                               role |-> RoleDisplay(payload.role),
                               digest |-> <<raw_name, stamp.iso, text>>]>>,
     alias |-> FirstLineSnip(RoleText(RoleDisplay(payload.role)) \o <<":", " ">> \o snippet, 72),
     metadata |-> payload.metadata]

\* one entry of prepare_raw_entries, its text given
RawEntryOf(segment, raw_name, payload, text, now) ==
    RawEntry(segment, raw_name, payload, text, ParseTimestamp(payload.ts, now),
             FirstLineSnip(text, 120), ExtractKeywords(text, 5))

\* one entry of prepare_raw_entries
PrepareRawEntry(segment, item, now) ==
    RawEntryOf(segment, item.name, item.payload,
               Strip(IF item.payload.text # <<>> THEN item.payload.text
                     ELSE item.payload.content),
               now)

\* prepare_raw_entries
PrepareRawEntries(segment, raw_items, now) ==
    IF raw_items = <<>> THEN <<>>
    ELSE [i \in 1..Len(raw_items) |-> PrepareRawEntry(segment, raw_items[i], now)]

\* the title of a segment's Summary note
SummaryTitle(segment) == Title(ReplaceChar(segment, "-", " ")) \o SUMMARY_SUFFIX

\* write_summary_note: the note, its creation time, bullets and fact lines given
SummaryNoteOf(segment, created, bullets, fact_lines, entries) ==
    [title |-> SummaryTitle(segment), tags |-> segment, created |-> created,
     snapshot |-> bullets,
     keyfacts |-> IF fact_lines # <<>> /\ fact_lines # bullets THEN fact_lines ELSE <<>>,
     recent |-> IF entries = <<>> THEN <<>>
                ELSE [i \in 1..Len(entries) |->
                         [date |-> entries[i].date, time |-> entries[i].time,
                          role |-> entries[i].role, link_path |-> entries[i].link_path,
                          alias |-> entries[i].alias,
                          detail |-> IF entries[i].keywords_line # <<>>
                                     THEN entries[i].keywords_line
                                     ELSE entries[i].quick_summary]],
     folder |-> segment]

\* write_summary_note: the note written at <vault>/<summary_title>.md; has tells
\* whether the segment has a summary.json, summary is its content then
SummaryNote(segment, has, summary, entries, now) ==
    SummaryNoteOf(segment,
                  ParseTimestamp(IF has THEN summary.updated ELSE NoTimestamp, now).iso,
                  IF has THEN Bulletize(summary.summary) ELSE <<>>,
                  IF has THEN TidyLines(summary.facts) ELSE <<>>,
                  entries)

\* write_raw_notes: the note of one entry, written at <vault>/<segment>/<file_stem>.md
RawNote(segment, summary_title, entry) ==
    [title |-> entry.note_title, tags |-> segment, created |-> entry.iso,
     captured |-> <<entry.date, entry.time>>, role |-> entry.role,
     message |-> entry.quick_summary,
     keywords |-> SubSeq(entry.keywords, 1, Min(6, Len(entry.keywords))),
     text |-> entry.text, metadata |-> entry.metadata,
     summary |-> summary_title, source |-> entry.raw_name]

\* create_vault: the vault tree is removed and made again, with its settings folder
EmptyVault ==
    [exists |-> TRUE, settings |-> TRUE, folders |-> {},
     summaryNotes |-> <<>>, rawNotes |-> <<>>,
     index |-> [written |-> FALSE, sections |-> <<>>]]

\* no vault tree on disk
NoVault ==
    [exists |-> FALSE, settings |-> FALSE, folders |-> {},
     summaryNotes |-> <<>>, rawNotes |-> <<>>,
     index |-> [written |-> FALSE, sections |-> <<>>]]

RECURSIVE WithRawNotes(_, _, _, _)
WithRawNotes(rawNotes, segment, summary_title, entries) ==
    IF entries = <<>> THEN rawNotes
    ELSE WithRawNotes((<<segment, Head(entries).file_stem>>
                           :> RawNote(segment, summary_title, Head(entries))) @@ rawNotes,
                      segment, summary_title, Tail(entries))

\* build_segment_notes: the Summary note and the raw notes are written
WriteNotes(v, segment, note, entries) ==
    [v EXCEPT !.exists = TRUE,
              !.folders = v.folders \cup {segment},
              !.summaryNotes = (note.title :> note) @@ v.summaryNotes,
              !.rawNotes = WithRawNotes(v.rawNotes, segment, note.title, entries)]

\* build_segment_notes, the entries of the segment being prepared
BuildNotesFrom(v, segment, has, summary, entries, now) ==
    WriteNotes(v, segment, SummaryNote(segment, has, summary, entries, now), entries)

\* build_segment_notes, on the vault v, from the archive as it is now
BuildSegmentNotes(v, segment, archive, summaries, now) ==
    BuildNotesFrom(v, segment, HasSummary(summaries, segment),
                   IF HasSummary(summaries, segment) THEN summaries[segment] ELSE <<>>,
                   PrepareRawEntries(segment, CollectRaw(archive, segment), now), now)

\* create_index with an empty summaries dict: every section has the placeholder line
IndexNoteNoLinks(segments, titles) ==
    [written |-> TRUE,
     sections |-> IF segments = <<>> THEN <<>>
                  ELSE [i \in 1..Len(segments) |->
                           [display |-> Title(ReplaceChar(segments[i], "-", " ")),
                            link |-> <<>>]]]

\* create_index: one section per segment, with the link to its Summary note
IndexNote(segments, titles) ==
    [written |-> TRUE,
     sections |-> IF segments = <<>> THEN <<>>
                  ELSE [i \in 1..Len(segments) |->
                           [display |-> Title(ReplaceChar(segments[i], "-", " ")),
                            link |-> IF segments[i] \in DOMAIN titles
                                     THEN titles[segments[i]] ELSE <<>>]]]

(***************************************************************************)
(* The state of the program.                                               *)
(***************************************************************************)
VARIABLES
    conversation,       \* AppController._conversation: the rolling context
    snapshot,           \* logs/conversation.json: the persisted rolling snapshot
    snapshotKind,       \* what conversation.json is: missing, an array, or corrupt
    legacy,             \* context.json beside the package: the legacy snapshot
    faults,             \* the filesystem operations that fail at present
    raised,             \* an exception escaped a call of the store
    savedFrom,          \* <<the list the last save_context that wrote was given>>
    archive,            \* logs/context/<slug>/raw/<name>.json: (slug, name) -> payload
    manifests,          \* logs/context/<slug>/segment.json: slug -> payload
    summaries,          \* logs/context/<slug>/summary.json: slug -> payload
    vault,              \* logs/obsidian_vault: the exported tree
    lastSegment,        \* AppController._last_segment
    contextSummary,     \* AppController._context_summary (<<>> for None)
    visionEnabled,      \* SafetyToggle.vision_enabled
    replyThread,        \* AppController._reply_thread: a thread number, 0 for None
    threads,            \* the reply threads made so far, by number
    queue,              \* the events posted to the main thread, oldest first
    mainPc,             \* where the main thread is
    shutdownInProgress, \* AppController._shutdown_in_progress
    obsidianThread,     \* AppController._obsidian_thread is set (not None)
    bg,                 \* the rebuild run by the ObsidianExport thread
    sync,               \* the rebuild run by the main thread at shutdown
    clock,              \* the wall clock, in seconds
    nVoice,             \* voice events posted so far
    nRecorded,          \* record_raw calls that wrote their file
    recorded,           \* the raw files those calls wrote, in the order of the calls
    nExportRequests,    \* calls of _trigger_obsidian_export made so far
    nExportStarts,      \* ObsidianExport threads started so far
    compaction,         \* the last call of _summarize_and_trim
    waited,             \* how the wait for the reply thread at shutdown ended
    prevVault,          \* the vault a first rebuild left (SpecRebuild)
    call                \* the last call of a function made from outside the controller

vars ==
    <<conversation, snapshot, snapshotKind, legacy, faults, raised, savedFrom, archive,
      manifests, summaries, nRecorded, recorded, vault, lastSegment, contextSummary,
      visionEnabled, replyThread, threads, queue, mainPc, shutdownInProgress,
      obsidianThread, bg, sync, clock, nVoice, nExportRequests, nExportStarts,
      compaction, waited, prevVault, call>>

storeVars ==
    <<conversation, snapshot, snapshotKind, legacy, faults, raised, savedFrom, archive,
      manifests, summaries, nRecorded, recorded>>

\* the rolling context and the store, as the record the store operators work on
St ==
    [conversation |-> conversation, snapshot |-> snapshot, snapshotKind |-> snapshotKind,
     legacy |-> legacy, faults |-> faults, raised |-> raised, savedFrom |-> savedFrom,
     archive |-> archive, manifests |-> manifests, summaries |-> summaries,
     nRecorded |-> nRecorded, recorded |-> recorded]

SetSt(st) ==
    /\ conversation' = st.conversation
    /\ snapshot' = st.snapshot
    /\ snapshotKind' = st.snapshotKind
    /\ legacy' = st.legacy
    /\ faults' = st.faults
    /\ raised' = st.raised
    /\ savedFrom' = st.savedFrom
    /\ archive' = st.archive
    /\ manifests' = st.manifests
    /\ summaries' = st.summaries
    /\ nRecorded' = st.nRecorded
    /\ recorded' = st.recorded

\* is_vision_ready(): the OCR binary is installed
VisionReady == TRUE

\* what the environment says, what the reply oracle answers, what the OCR raises,
\* what the summary oracle gives (<<>>: no client, an error or no output)
VoiceTexts == {<<>>, TXT_BUG, TXT_BYE}

Replies == {TXT_HI}

ReplyErrors == {TXT_OCR}

Oracles == {<<>>, <<" ">>, DIGEST_HELLO}

Event(type, thread, text) == [type |-> type, thread |-> thread, text |-> text]

\* no call of a function was made from outside the controller
NoCall == [fn |-> "none"]

\* the calls made so far
CallCount == IF call.fn = "none" THEN 0 ELSE call.n

\* a rebuild: where it is, the segments left, the segments listed, the titles of the
\* Summary notes written; before is the raw files that were complete when it was
\* invoked and read the raw files it has read since
IdleRebuild ==
    [pc |-> "idle", segs |-> <<>>, all |-> <<>>, titles |-> <<>>, before |-> {}, read |-> {}]

NoCompaction == [n |-> 0, oracle |-> <<>>, history |-> <<>>, summary |-> <<>>]

\* QThread.isRunning() of the thread in the reply slot
ReplyRunning == replyThread # 0 /\ threads[replyThread].pc # "finished"

(***************************************************************************)
(* The vault rebuild (json_to_obsidian.main), one step at a time.          *)
(***************************************************************************)
\* main() with a create_vault that makes the directories and removes nothing
RebuildBeginKeepsVault(p) ==
    IF "write_vault" \in faults
    THEN [p |-> [p EXCEPT !.pc = "failed"], vault |-> vault]
    ELSE [p |-> [pc |-> "build", segs |-> ListSegments(archive, manifests, summaries),
                 all |-> ListSegments(archive, manifests, summaries), titles |-> <<>>,
                 before |-> IF p.pc = "start" THEN p.before
                            ELSE {k \in DOMAIN archive : archive[k] # TORN},
                 read |-> {}],
          vault |-> [vault EXCEPT !.exists = TRUE, !.settings = TRUE]]

\* main(): list_segments(), then create_vault(), which raises when the vault tree
\* cannot be written
RebuildBegin(p) ==
    IF "write_vault" \in faults
    THEN [p |-> [p EXCEPT !.pc = "failed"], vault |-> vault]
    ELSE [p |-> [pc |-> "build", segs |-> ListSegments(archive, manifests, summaries),
                 all |-> ListSegments(archive, manifests, summaries), titles |-> <<>>,
                 before |-> IF p.pc = "start" THEN p.before
                            ELSE {k \in DOMAIN archive : archive[k] # TORN},
                 read |-> {}],
          vault |-> EmptyVault]

\* main(): build_segment_notes of the segment seg
RebuildSegment(p, seg) ==
    [p |-> [p EXCEPT !.segs = Tail(p.segs),
                     !.titles = (seg :> SummaryTitle(seg)) @@ p.titles,
                     !.read = p.read \cup ReadableRaw(archive, seg)],
     vault |-> BuildSegmentNotes(vault, seg, archive, summaries, clock)]

\* main(): build_segment_notes of the next segment, or create_index after the last;
\* a write that fails raises
RebuildStep(p) ==
    IF "write_vault" \in faults THEN [p |-> [p EXCEPT !.pc = "failed"], vault |-> vault]
    ELSE IF p.segs # <<>> THEN RebuildSegment(p, Head(p.segs))
    ELSE [p |-> [p EXCEPT !.pc = "done"],
          vault |-> [vault EXCEPT !.exists = TRUE, !.index = IndexNote(p.all, p.titles)]]

(***************************************************************************)
(* main.py: the controller.                                                *)
(***************************************************************************)
\* the segment given to update_segment_summary: last_segment or DEFAULT_SEGMENT
SegmentOrDefault(last_segment) ==
    IF last_segment = <<>> THEN DEFAULT_SEGMENT ELSE last_segment

\* _summarize_and_trim from its update_segment_summary on, st2 being the store that
\* call left: when it raised, the snapshot is not saved and _context_summary not set
Summarized(st2, summary, ctx, history) ==
    [st |-> SaveUnlessRaised(st2, <<[role |-> "assistant", content |-> summary]>>),
     ctx |-> IF st2.raised THEN ctx ELSE summary, summary |-> summary, history |-> history]

\* _summarize_and_trim once the summary is there: st1 is the store after the reply
\* was appended
TrimTo(st1, summary, last_segment, ctx, now) ==
    IF st1.raised
    THEN [st |-> st1, ctx |-> ctx, summary |-> <<>>, history |-> st1.conversation]
    ELSE IF summary # <<>>
    THEN Summarized(UpdateSegmentSummary(
                        [st1 EXCEPT !.conversation =
                                        <<[role |-> "assistant", content |-> summary]>>],
                        SegmentOrDefault(last_segment), summary, now),
                    summary, ctx, st1.conversation)
    ELSE [st |-> SaveContext([st1 EXCEPT !.conversation = LastN(@, TRIM_KEEP)],
                             LastN(st1.conversation, TRIM_KEEP)),
          ctx |-> ctx, summary |-> <<>>, history |-> st1.conversation]

\* _summarize_and_trim after its append_message
SummarizeAppended(st1, last_segment, oracle, ctx, now) ==
    TrimTo(st1, SummarizeHistory(st1.conversation, oracle), last_segment, ctx, now)

\* AppController._summarize_and_trim, after which st is the store and ctx the
\* context summary
SummarizeAndTrim(st, last_segment, assistant_reply, oracle, ctx, now) ==
    SummarizeAppended(IF st.raised THEN st
                      ELSE AppendMessage(st, "assistant", assistant_reply, FALSE,
                                         last_segment, {}, now),
                      last_segment, oracle, ctx, now)

\* an exception of a store call is caught by the caller's except Exception
Caught(st) == [st EXCEPT !.raised = FALSE]

\* _finalize_conversation once the summary is there
FinalizeTo(st, summary, last_segment, ctx, now) ==
    IF summary # <<>>
    THEN [st |-> SaveContext(
                     [Caught(UpdateSegmentSummary(st, SegmentOrDefault(last_segment),
                                                  summary, now))
                      EXCEPT !.conversation = <<[role |-> "assistant", content |-> summary]>>],
                     <<[role |-> "assistant", content |-> summary]>>),
          ctx |-> summary]
    ELSE [st |-> SaveContext(st, st.conversation), ctx |-> ctx]

\* AppController._finalize_conversation
FinalizeConversation(st, last_segment, oracle, ctx, now) ==
    FinalizeTo(st, SummarizeHistory(st.conversation, oracle), last_segment, ctx, now)

\* a slot of the controller ends: an exception that escaped a store call leaves the
\* slot, and PyQt5 aborts the process on an exception it finds unhandled in a slot
SlotEnds == mainPc' = IF raised' THEN "crashed" ELSE mainPc

\* the environment: the VoiceThread of Avatar.listen delivers what it heard; there
\* is one listening thread at a time, and its result is handled before the next
\* one is started
PostVoice(text, max) ==
    /\ mainPc # "quit"
    /\ nVoice < max
    /\ \A i \in 1..Len(queue) : queue[i].type # "voice"
    /\ nVoice' = nVoice + 1
    /\ queue' = Append(queue, Event("voice", 0, text))
    /\ UNCHANGED <<storeVars, vault, lastSegment, contextSummary, visionEnabled, replyThread,
                   threads, mainPc, shutdownInProgress, obsidianThread, bg, sync, clock,
                   nExportRequests, nExportStarts, compaction, waited, prevVault, call>>

\* the environment: the user picks "Toggle screen vision"
PostToggleVision ==
    /\ mainPc # "quit"
    /\ \A i \in 1..Len(queue) : queue[i].type # "toggle_vision"
    /\ queue' = Append(queue, Event("toggle_vision", 0, <<>>))
    /\ UNCHANGED <<storeVars, vault, lastSegment, contextSummary, visionEnabled, replyThread,
                   threads, mainPc, shutdownInProgress, obsidianThread, bg, sync, clock,
                   nVoice, nExportRequests, nExportStarts, compaction, waited, prevVault, call>>

\* the environment: the user asks to shut down
PostShutdown ==
    /\ mainPc # "quit"
    /\ ~shutdownInProgress
    /\ \A i \in 1..Len(queue) : queue[i].type # "shutdown"
    /\ queue' = Append(queue, Event("shutdown", 0, <<>>))
    /\ UNCHANGED <<storeVars, vault, lastSegment, contextSummary, visionEnabled, replyThread,
                   threads, mainPc, shutdownInProgress, obsidianThread, bg, sync, clock,
                   nVoice, nExportRequests, nExportStarts, compaction, waited, prevVault, call>>

\* the environment: a second passes
Tick ==
    /\ clock < MaxClock
    /\ clock' = clock + 1
    /\ UNCHANGED <<storeVars, vault, lastSegment, contextSummary, visionEnabled, replyThread,
                   threads, queue, mainPc, shutdownInProgress, obsidianThread, bg, sync,
                   nVoice, nExportRequests, nExportStarts, compaction, waited, prevVault, call>>

\* the main thread takes the oldest event of a given type
Takes(type) ==
    /\ mainPc = "idle"
    /\ queue # <<>>
    /\ Head(queue).type = type
    /\ queue' = Tail(queue)

\* _handle_voice_text: the utterance is empty or blank, or a reply is being generated
HandleVoiceIgnored ==
    /\ Takes("voice")
    /\ Head(queue).text = <<>> \/ ReplyRunning \/ Strip(Head(queue).text) = <<>>
    /\ UNCHANGED <<storeVars, vault, lastSegment, contextSummary, visionEnabled, replyThread,
                   threads, mainPc, shutdownInProgress, obsidianThread, bg, sync, clock,
                   nVoice, nExportRequests, nExportStarts, compaction, waited, prevVault, call>>

\* the rebuild of an export thread that was started and has not run yet
ExportStarted ==
    [IdleRebuild EXCEPT !.pc = "start", !.before = {k \in DOMAIN archive' : archive'[k] # TORN}]

\* _trigger_obsidian_export_internal(blocking=False) without the is_alive() test: a
\* thread is started at every request
TriggerObsidianExportAlways ==
    /\ nExportRequests' = nExportRequests + 1
    /\ obsidianThread' = TRUE
    /\ bg' = ExportStarted
    /\ nExportStarts' = nExportStarts + 1

\* _trigger_obsidian_export_internal(blocking=False): dropped when the export thread
\* is alive, a new thread otherwise
TriggerObsidianExport ==
    /\ nExportRequests' = nExportRequests + 1
    /\ IF obsidianThread
       THEN UNCHANGED <<obsidianThread, bg, nExportStarts>>
       ELSE /\ obsidianThread' = TRUE
            /\ bg' = ExportStarted
            /\ nExportStarts' = nExportStarts + 1

\* _handle_voice_text: the result r of _summarize_and_trim becomes the state
Compacted(r, oracle) ==
    /\ SetSt(r.st)
    /\ contextSummary' = r.ctx
    /\ compaction' = [n |-> compaction.n + 1, oracle |-> oracle,
                      history |-> r.history, summary |-> r.summary]

\* _handle_voice_text: the command branch, the command and the segment given
RunCommand(cleaned, command_type, segment, oracle) ==
    /\ command_type # <<>>
    /\ lastSegment' = segment
    /\ Compacted(SummarizeAndTrim(
                     AppendMessage(St, "user", cleaned, FALSE, segment, {}, clock),
                     segment, IF command_type = KW_BYE THEN BYE_REPLY ELSE STOP_REPLY,
                     oracle, contextSummary, clock),
                 oracle)

\* _handle_voice_text: a bye or stop command (compaction, then an export request)
HandleVoiceCommand(oracle) ==
    /\ Takes("voice")
    /\ Head(queue).text # <<>>
    /\ ~ReplyRunning
    /\ Strip(Head(queue).text) # <<>>
    /\ RunCommand(Strip(Head(queue).text), CommandType(Strip(Head(queue).text)),
                  InferSegment("user", Strip(Head(queue).text), FALSE), oracle)
    /\ SlotEnds
    /\ IF raised'
       THEN UNCHANGED <<nExportRequests, obsidianThread, bg, nExportStarts>>
       ELSE TriggerObsidianExport
    /\ UNCHANGED <<vault, visionEnabled, replyThread, threads, shutdownInProgress,
                   sync, clock, nVoice, waited, prevVault, call>>

\* _handle_voice_text: the utterance is recorded and a reply thread started
StartReply(cleaned, include_screen, segment) ==
    /\ lastSegment' = segment
    /\ SetSt(AppendMessage(St, "user", cleaned, TRUE, segment,
                           {<<"include_screen", include_screen>>}, clock))
    /\ threads' = IF raised' THEN threads
                  ELSE Append(threads, [pc |-> "running", screen |-> include_screen,
                                        reply |-> <<>>, delivered |-> FALSE])
    /\ replyThread' = IF raised' THEN replyThread ELSE Len(threads) + 1

\* _handle_voice_text: an utterance to answer (a reply thread is started)
HandleVoiceAccepted ==
    /\ Takes("voice")
    /\ Head(queue).text # <<>>
    /\ ~ReplyRunning
    /\ Strip(Head(queue).text) # <<>>
    /\ CommandType(Strip(Head(queue).text)) = <<>>
    /\ StartReply(Strip(Head(queue).text), visionEnabled /\ VisionReady,
                  InferSegment("user", Strip(Head(queue).text), visionEnabled /\ VisionReady))
    /\ SlotEnds
    /\ UNCHANGED <<vault, contextSummary, visionEnabled, shutdownInProgress,
                   obsidianThread, bg, sync, clock, nVoice, nExportRequests, nExportStarts,
                   compaction, waited, prevVault, call>>

\* ReplyThread.run: the reply is emitted
ThreadEmitResult(t, reply) ==
    /\ threads[t].pc = "running"
    /\ threads' = [threads EXCEPT ![t].pc = "emitted", ![t].reply = reply]
    /\ queue' = Append(queue, Event("result", t, reply))
    /\ UNCHANGED <<storeVars, vault, lastSegment, contextSummary, visionEnabled, replyThread,
                   mainPc, shutdownInProgress, obsidianThread, bg, sync, clock, nVoice,
                   nExportRequests, nExportStarts, compaction, waited, prevVault, call>>

\* ReplyThread.run: the screen capture raised, the error is emitted
ThreadEmitError(t, err) ==
    /\ threads[t].pc = "running"
    /\ threads[t].screen
    /\ threads' = [threads EXCEPT ![t].pc = "emitted"]
    /\ queue' = Append(queue, Event("error", t, err))
    /\ UNCHANGED <<storeVars, vault, lastSegment, contextSummary, visionEnabled, replyThread,
                   mainPc, shutdownInProgress, obsidianThread, bg, sync, clock, nVoice,
                   nExportRequests, nExportStarts, compaction, waited, prevVault, call>>

\* ReplyThread.run returns: QThread emits finished and stops running
ThreadFinish(t) ==
    /\ threads[t].pc = "emitted"
    /\ threads' = [threads EXCEPT ![t].pc = "finished"]
    /\ queue' = Append(queue, Event("finished", t, <<>>))
    /\ UNCHANGED <<storeVars, vault, lastSegment, contextSummary, visionEnabled, replyThread,
                   mainPc, shutdownInProgress, obsidianThread, bg, sync, clock, nVoice,
                   nExportRequests, nExportStarts, compaction, waited, prevVault, call>>

\* _deliver_reply: the reply is appended under its segment
AppendReply(t, reply, segment) ==
    /\ lastSegment' = SegmentOrDefault(segment)
    /\ SetSt(AppendMessage(St, "assistant", reply, TRUE, segment, {}, clock))
    /\ threads' = [threads EXCEPT ![t].delivered = TRUE]

\* _deliver_reply: the segment guessed from the reply, or the last one
GuessOr(segment_guess, last_segment) ==
    IF segment_guess # DEFAULT_SEGMENT THEN segment_guess ELSE last_segment

\* AppController._deliver_reply
DeliverReply ==
    /\ Takes("result")
    /\ IF Head(queue).text # <<>>
       THEN AppendReply(Head(queue).thread, Head(queue).text,
                        GuessOr(InferSegment("assistant", Head(queue).text, FALSE),
                                lastSegment))
       ELSE UNCHANGED <<storeVars, lastSegment, threads>>
    /\ SlotEnds
    /\ UNCHANGED <<vault, contextSummary, visionEnabled, replyThread,
                   shutdownInProgress, obsidianThread, bg, sync, clock, nVoice,
                   nExportRequests, nExportStarts, compaction, waited, prevVault, call>>

\* AppController._handle_reply_error
HandleReplyError ==
    /\ Takes("error")
    /\ LET err == Head(queue).text IN
       IF err # <<>>
       THEN SetSt(AppendMessage(St, "assistant", ERROR_PREFIX \o err, TRUE,
                                SYSTEM_SEGMENT, {}, clock))
       ELSE UNCHANGED storeVars
    /\ SlotEnds
    /\ UNCHANGED <<vault, lastSegment, contextSummary, visionEnabled, replyThread, threads,
                   shutdownInProgress, obsidianThread, bg, sync, clock, nVoice,
                   nExportRequests, nExportStarts, compaction, waited, prevVault, call>>

\* the finished signal handled without the slot being cleared
ClearReplyThreadKeepsSlot ==
    /\ Takes("finished")
    /\ UNCHANGED <<storeVars, vault, lastSegment, contextSummary, visionEnabled, threads,
                   replyThread, mainPc, shutdownInProgress, obsidianThread, bg, sync, clock,
                   nVoice, nExportRequests, nExportStarts, compaction, waited, prevVault, call>>

\* AppController._clear_reply_thread
ClearReplyThread ==
    /\ Takes("finished")
    /\ replyThread' = 0
    /\ UNCHANGED <<storeVars, vault, lastSegment, contextSummary, visionEnabled, threads,
                   mainPc, shutdownInProgress, obsidianThread, bg, sync, clock, nVoice,
                   nExportRequests, nExportStarts, compaction, waited, prevVault, call>>

\* AppController._toggle_vision
ToggleVision ==
    /\ Takes("toggle_vision")
    /\ visionEnabled' = ~visionEnabled
    /\ UNCHANGED <<storeVars, vault, lastSegment, contextSummary, replyThread, threads,
                   mainPc, shutdownInProgress, obsidianThread, bg, sync, clock, nVoice,
                   nExportRequests, nExportStarts, compaction, waited, prevVault, call>>

\* the step r of a rebuild becomes the state of the export thread and the vault
BgRebuilt(r) == bg' = r.p /\ vault' = r.vault

\* the step r of a rebuild becomes the state of the main thread's rebuild and the vault
SyncRebuilt(r) == sync' = r.p /\ vault' = r.vault

\* the result r of _finalize_conversation becomes the state
Finalized(r) == SetSt(r.st) /\ contextSummary' = r.ctx

\* the ObsidianExport thread: _run_export calls the rebuild
ExportBegin ==
    /\ bg.pc = "start"
    /\ BgRebuilt(RebuildBegin(bg))
    /\ UNCHANGED <<storeVars, lastSegment, contextSummary, visionEnabled, replyThread,
                   threads, queue, mainPc, shutdownInProgress, obsidianThread, sync, clock,
                   nVoice, nExportRequests, nExportStarts, compaction, waited, prevVault, call>>

\* a rebuild step of the export thread that removes the raw files it has read
ExportStepMovesRaw ==
    /\ bg.pc = "build"
    /\ BgRebuilt(RebuildStep(bg))
    /\ archive' = [k \in DOMAIN archive \ bg'.read |-> archive[k]]
    /\ UNCHANGED <<conversation, snapshot, snapshotKind, legacy, faults, raised, savedFrom,
                   manifests, summaries, nRecorded, recorded, lastSegment, contextSummary,
                   visionEnabled, replyThread, threads, queue, mainPc, shutdownInProgress,
                   obsidianThread, sync, clock, nVoice, nExportRequests, nExportStarts,
                   compaction, waited, prevVault, call>>

\* the ObsidianExport thread: the next step of its rebuild
ExportStep ==
    /\ bg.pc = "build"
    /\ BgRebuilt(RebuildStep(bg))
    /\ UNCHANGED <<storeVars, lastSegment, contextSummary, visionEnabled, replyThread,
                   threads, queue, mainPc, shutdownInProgress, obsidianThread, sync, clock,
                   nVoice, nExportRequests, nExportStarts, compaction, waited, prevVault, call>>

\* _run_export without its finally clause: the slot is cleared when the rebuild
\* returned only
ExportFinallyKeepsSlot ==
    /\ bg.pc \in {"done", "failed"}
    /\ bg' = IdleRebuild
    /\ obsidianThread' = (bg.pc = "failed")
    /\ UNCHANGED <<storeVars, vault, lastSegment, contextSummary, visionEnabled, replyThread,
                   threads, queue, mainPc, shutdownInProgress, sync, clock, nVoice,
                   nExportRequests, nExportStarts, compaction, waited, prevVault, call>>

\* the ObsidianExport thread: the rebuild returned or raised (except Exception:
\* pass); the finally clause of _run_export, then the thread ends
ExportFinally ==
    /\ bg.pc \in {"done", "failed"}
    /\ bg' = IdleRebuild
    /\ obsidianThread' = FALSE
    /\ UNCHANGED <<storeVars, vault, lastSegment, contextSummary, visionEnabled, replyThread,
                   threads, queue, mainPc, shutdownInProgress, sync, clock, nVoice,
                   nExportRequests, nExportStarts, compaction, waited, prevVault, call>>

\* _handle_shutdown_request, up to the wait for the reply thread
HandleShutdownRequest ==
    /\ Takes("shutdown")
    /\ ~shutdownInProgress
    /\ shutdownInProgress' = TRUE
    /\ mainPc' = IF ReplyRunning THEN "sd_wait" ELSE "sd_finalize"
    /\ UNCHANGED <<storeVars, vault, lastSegment, contextSummary, visionEnabled, replyThread,
                   threads, obsidianThread, bg, sync, clock, nVoice, nExportRequests,
                   nExportStarts, compaction, waited, prevVault, call>>

\* the queue without its shutdown requests
WithoutShutdown(q) == SelectSeq(q, LAMBDA e : e.type # "shutdown")

\* _handle_shutdown_request without its test of _shutdown_in_progress: a later
\* request runs the sequence again
HandleShutdownRequestUnguarded ==
    /\ mainPc = "quit"
    /\ shutdownInProgress
    /\ \E i \in 1..Len(queue) : queue[i].type = "shutdown"
    /\ CallCount < MaxRepeatedShutdown
    /\ queue' = WithoutShutdown(queue)
    /\ call' = [fn |-> "_handle_shutdown_request", n |-> CallCount + 1]
    /\ mainPc' = "sd_finalize"
    /\ UNCHANGED <<storeVars, vault, lastSegment, contextSummary, visionEnabled, replyThread,
                   threads, shutdownInProgress, obsidianThread, bg, sync, clock, nVoice,
                   nExportRequests, nExportStarts, compaction, waited, prevVault>>

\* _handle_shutdown_request, _shutdown_in_progress being set: a request delivered
\* after the handler of the first one returned (QApplication.quit() only asks the
\* event loop to end) returns at once
HandleShutdownRequestAgain ==
    /\ mainPc = "quit"
    /\ shutdownInProgress
    /\ \E i \in 1..Len(queue) : queue[i].type = "shutdown"
    /\ CallCount < MaxRepeatedShutdown
    /\ queue' = WithoutShutdown(queue)
    /\ call' = [fn |-> "_handle_shutdown_request", n |-> CallCount + 1]
    /\ UNCHANGED <<storeVars, vault, lastSegment, contextSummary, visionEnabled, replyThread,
                   threads, mainPc, shutdownInProgress, obsidianThread, bg, sync, clock,
                   nVoice, nExportRequests, nExportStarts, compaction, waited, prevVault>>

\* _handle_shutdown_request: self._reply_thread.wait(2000) returns, the thread
\* having finished or the two seconds being over
ShutdownWaitReturn ==
    /\ mainPc = "sd_wait"
    /\ mainPc' = "sd_finalize"
    /\ waited' = IF ReplyRunning THEN "timeout" ELSE "finished"
    /\ UNCHANGED <<storeVars, vault, lastSegment, contextSummary, visionEnabled, replyThread,
                   threads, queue, shutdownInProgress, obsidianThread, bg, sync, clock,
                   nVoice, nExportRequests, nExportStarts, compaction, prevVault, call>>

\* _handle_shutdown_request: _finalize_conversation, then the blocking export up to
\* its join of the export thread
ShutdownFinalize(oracle) ==
    /\ mainPc = "sd_finalize"
    /\ Finalized(FinalizeConversation(St, lastSegment, oracle, contextSummary, clock))
    /\ mainPc' = IF obsidianThread THEN "sd_join" ELSE "sd_export"
    /\ UNCHANGED <<vault, lastSegment, visionEnabled, replyThread, threads, queue,
                   shutdownInProgress, obsidianThread, bg, sync, clock, nVoice,
                   nExportRequests, nExportStarts, compaction, waited, prevVault, call>>

\* _trigger_obsidian_export_internal(blocking=True): join(timeout=5) returns, the
\* export thread having ended or the five seconds being over; the slot is cleared
ShutdownJoinReturn ==
    /\ mainPc = "sd_join"
    /\ mainPc' = "sd_export"
    /\ obsidianThread' = FALSE
    /\ UNCHANGED <<storeVars, vault, lastSegment, contextSummary, visionEnabled, replyThread,
                   threads, queue, shutdownInProgress, bg, sync, clock, nVoice,
                   nExportRequests, nExportStarts, compaction, waited, prevVault, call>>

\* the blocking export: the rebuild on the main thread begins; when it raises
\* (except Exception: pass) QApplication.quit() is called
ShutdownExportBegin ==
    /\ mainPc = "sd_export"
    /\ sync.pc = "idle"
    /\ SyncRebuilt(RebuildBegin(sync))
    /\ obsidianThread' = FALSE
    /\ mainPc' = IF sync'.pc = "failed" THEN "quit" ELSE mainPc
    /\ UNCHANGED <<storeVars, lastSegment, contextSummary, visionEnabled, replyThread,
                   threads, queue, shutdownInProgress, bg, clock, nVoice,
                   nExportRequests, nExportStarts, compaction, waited, prevVault, call>>

\* the blocking export: the next step of the rebuild; after the last one, or
\* when a step raises (except Exception: pass), QApplication.quit() is called
ShutdownExportStep ==
    /\ mainPc = "sd_export"
    /\ sync.pc = "build"
    /\ SyncRebuilt(RebuildStep(sync))
    /\ mainPc' = IF sync'.pc \in {"done", "failed"} THEN "quit" ELSE mainPc
    /\ UNCHANGED <<storeVars, lastSegment, contextSummary, visionEnabled, replyThread,
                   threads, queue, shutdownInProgress, obsidianThread, bg, clock, nVoice,
                   nExportRequests, nExportStarts, compaction, waited, prevVault, call>>

(***************************************************************************)
(* The controller with its threads.                                        *)
(***************************************************************************)
\* after AppController.__init__, no snapshot being on disk
Init ==
    /\ conversation = <<>>
    /\ snapshot = <<>>
    /\ snapshotKind = "missing"
    /\ legacy = NoFile
    /\ faults = {}
    /\ raised = FALSE
    /\ savedFrom = <<>>
    /\ archive = <<>>
    /\ manifests = <<>>
    /\ summaries = <<>>
    /\ vault = NoVault
    /\ lastSegment = DEFAULT_SEGMENT
    /\ contextSummary = <<>>
    /\ visionEnabled = TRUE
    /\ replyThread = 0
    /\ threads = <<>>
    /\ queue = <<>>
    /\ mainPc = "idle"
    /\ shutdownInProgress = FALSE
    /\ obsidianThread = FALSE
    /\ bg = IdleRebuild
    /\ sync = IdleRebuild
    /\ clock = 0
    /\ nVoice = 0
    /\ nRecorded = 0
    /\ recorded = <<>>
    /\ nExportRequests = 0
    /\ nExportStarts = 0
    /\ compaction = NoCompaction
    /\ waited = "none"
    /\ prevVault = NoVault
    /\ call = NoCall

Next ==
    \/ \E text \in VoiceTexts : PostVoice(text, MaxVoice)
    \/ PostToggleVision
    \/ PostShutdown
    \/ Tick
    \/ HandleVoiceIgnored
    \/ \E oracle \in Oracles : HandleVoiceCommand(oracle)
    \/ HandleVoiceAccepted
    \/ \E t \in 1..Len(threads) : \E reply \in Replies : ThreadEmitResult(t, reply)
    \/ \E t \in 1..Len(threads) : \E err \in ReplyErrors : ThreadEmitError(t, err)
    \/ \E t \in 1..Len(threads) : ThreadFinish(t)
    \/ DeliverReply
    \/ HandleReplyError
    \/ ClearReplyThread
    \/ ToggleVision
    \/ ExportBegin
    \/ ExportStep
    \/ ExportFinally
    \/ HandleShutdownRequest
    \/ ShutdownWaitReturn
    \/ \E oracle \in Oracles : ShutdownFinalize(oracle)
    \/ ShutdownJoinReturn
    \/ ShutdownExportBegin
    \/ ShutdownExportStep

Spec == Init /\ [][Next]_vars


(***************************************************************************)
(* The reply lifecycle alone: utterances to answer, spoken at any time.    *)
(***************************************************************************)
NextReply ==
    \/ PostVoice(TXT_BUG, MaxVoice)
    \/ HandleVoiceIgnored
    \/ HandleVoiceAccepted
    \/ \E t \in 1..Len(threads) : \E reply \in Replies : ThreadEmitResult(t, reply)
    \/ \E t \in 1..Len(threads) : \E err \in ReplyErrors : ThreadEmitError(t, err)
    \/ \E t \in 1..Len(threads) : ThreadFinish(t)
    \/ DeliverReply
    \/ HandleReplyError
    \/ ClearReplyThread

SpecReply == Init /\ [][NextReply]_vars

(***************************************************************************)
(* One utterance at a time: the avatar listens again only when the reply   *)
(* has been spoken, so the user speaks when nothing is pending.            *)
(***************************************************************************)
\* the environment: the utterance heard after _auto_resume_listening
PostVoiceWhenIdle(text, max) ==
    /\ queue = <<>>
    /\ replyThread = 0
    /\ PostVoice(text, max)

NextAppend ==
    \/ PostVoiceWhenIdle(TXT_BUG, MaxAppendVoice)
    \/ HandleVoiceAccepted
    \/ \E t \in 1..Len(threads) : \E reply \in Replies : ThreadEmitResult(t, reply)
    \/ \E t \in 1..Len(threads) : ThreadFinish(t)
    \/ DeliverReply
    \/ ClearReplyThread

SpecAppend == Init /\ [][NextAppend]_vars

(***************************************************************************)
(* The raw archive: the same utterance repeated, the vision toggle and the *)
(* clock.                                                                  *)
(***************************************************************************)
NextArchive ==
    \/ PostVoice(TXT_BUG, MaxArchiveVoice)
    \/ PostToggleVision
    \/ Tick
    \/ HandleVoiceIgnored
    \/ HandleVoiceAccepted
    \/ \E t \in 1..Len(threads) : \E reply \in Replies : ThreadEmitResult(t, reply)
    \/ \E t \in 1..Len(threads) : ThreadFinish(t)
    \/ DeliverReply
    \/ ClearReplyThread
    \/ ToggleVision

SpecArchive == Init /\ [][NextArchive]_vars

(***************************************************************************)
(* Compaction: utterances and session-ending commands, one at a time, with *)
(* every outcome of the summary oracle, and the export each command asks   *)
(* for.                                                                    *)
(***************************************************************************)
NextCompact ==
    \/ \E text \in {TXT_BUG, TXT_BYE} : PostVoiceWhenIdle(text, MaxCompactVoice)
    \/ \E oracle \in Oracles : HandleVoiceCommand(oracle)
    \/ HandleVoiceAccepted
    \/ \E t \in 1..Len(threads) : \E reply \in Replies : ThreadEmitResult(t, reply)
    \/ \E t \in 1..Len(threads) : ThreadFinish(t)
    \/ DeliverReply
    \/ ClearReplyThread
    \/ ExportBegin
    \/ ExportStep
    \/ ExportFinally

SpecCompact == Init /\ [][NextCompact]_vars

(***************************************************************************)
(* Shutdown: utterances and commands at any time, the background export   *)
(* and the shutdown request, the summary oracle being unavailable.         *)
(***************************************************************************)
NextShutdown ==
    \/ \E text \in {TXT_BUG, TXT_BYE} : PostVoice(text, MaxShutdownVoice)
    \/ PostShutdown
    \/ HandleVoiceIgnored
    \/ HandleVoiceCommand(<<>>)
    \/ HandleVoiceAccepted
    \/ \E t \in 1..Len(threads) : \E reply \in Replies : ThreadEmitResult(t, reply)
    \/ \E t \in 1..Len(threads) : ThreadFinish(t)
    \/ DeliverReply
    \/ ClearReplyThread
    \/ ExportBegin
    \/ ExportStep
    \/ ExportFinally
    \/ HandleShutdownRequest
    \/ ShutdownWaitReturn
    \/ ShutdownFinalize(<<>>)
    \/ ShutdownJoinReturn
    \/ ShutdownExportBegin
    \/ ShutdownExportStep

SpecShutdown == Init /\ [][NextShutdown]_vars

(***************************************************************************)
(* The exporter run twice on an archive nothing writes to.                 *)
(***************************************************************************)
EmptyStore ==
    [conversation |-> <<>>, snapshot |-> <<>>, snapshotKind |-> "missing", legacy |-> NoFile,
     faults |-> {}, raised |-> FALSE, savedFrom |-> <<>>, archive |-> <<>>, manifests |-> <<>>,
     summaries |-> <<>>, nRecorded |-> 0, recorded |-> <<>>]

\* archives the controller leaves: nothing said; an utterance; its reply; a
\* summary of that segment; a bye command whose segment alone has a summary; an
\* error of the reply thread
StoreUser ==
    AppendMessage(EmptyStore, "user", TXT_BUG, TRUE, InferSegment("user", TXT_BUG, TRUE),
                  {<<"include_screen", TRUE>>}, 0)

StoreReply ==
    AppendMessage(StoreUser, "assistant", TXT_HI, TRUE, InferSegment("user", TXT_BUG, TRUE),
                  {}, 0)

StoreSummary ==
    UpdateSegmentSummary(StoreReply, InferSegment("user", TXT_BUG, TRUE), DIGEST_HELLO, 0)

StoreBye ==
    UpdateSegmentSummary(
        AppendMessage(StoreReply, "user", TXT_BYE, FALSE, InferSegment("user", TXT_BYE, FALSE),
                      {}, 0),
        InferSegment("user", TXT_BYE, FALSE), DIGEST_HELLO, 0)

StoreError ==
    AppendMessage(StoreUser, "assistant", ERROR_PREFIX \o TXT_OCR, TRUE, SYSTEM_SEGMENT, {}, 0)

RebuildStores == {EmptyStore, StoreUser, StoreReply, StoreSummary, StoreBye, StoreError}

InitRebuild ==
    /\ \E st \in RebuildStores :
           /\ conversation = st.conversation
           /\ snapshot = st.snapshot
           /\ snapshotKind = st.snapshotKind
           /\ legacy = st.legacy
           /\ faults = st.faults
           /\ raised = st.raised
           /\ savedFrom = st.savedFrom
           /\ archive = st.archive
           /\ manifests = st.manifests
           /\ summaries = st.summaries
           /\ nRecorded = st.nRecorded
           /\ recorded = st.recorded
    /\ vault = NoVault
    /\ lastSegment = DEFAULT_SEGMENT
    /\ contextSummary = <<>>
    /\ visionEnabled = TRUE
    /\ replyThread = 0
    /\ threads = <<>>
    /\ queue = <<>>
    /\ mainPc = "idle"
    /\ shutdownInProgress = FALSE
    /\ obsidianThread = FALSE
    /\ bg = IdleRebuild
    /\ sync = IdleRebuild
    /\ clock = 0
    /\ nVoice = 0
    /\ nExportRequests = 0
    /\ nExportStarts = 0
    /\ compaction = NoCompaction
    /\ waited = "none"
    /\ prevVault = NoVault
    /\ call = NoCall

\* main() is called
RebuildFirst ==
    /\ sync.pc = "idle"
    /\ SyncRebuilt(RebuildBegin(sync))
    /\ UNCHANGED <<storeVars, lastSegment, contextSummary, visionEnabled, replyThread,
                   threads, queue, mainPc, shutdownInProgress, obsidianThread, bg, clock,
                   nVoice, nExportRequests, nExportStarts, compaction, waited, prevVault, call>>

\* main(): the next segment, or the index
RebuildNextStep ==
    /\ sync.pc = "build"
    /\ SyncRebuilt(RebuildStep(sync))
    /\ UNCHANGED <<storeVars, lastSegment, contextSummary, visionEnabled, replyThread,
                   threads, queue, mainPc, shutdownInProgress, obsidianThread, bg, clock,
                   nVoice, nExportRequests, nExportStarts, compaction, waited, prevVault, call>>

\* main() is called again, the vault of the first run being remembered
RebuildSecond ==
    /\ sync.pc = "done"
    /\ ~prevVault.exists
    /\ prevVault' = vault
    /\ SyncRebuilt(RebuildBegin(sync))
    /\ UNCHANGED <<storeVars, lastSegment, contextSummary, visionEnabled, replyThread,
                   threads, queue, mainPc, shutdownInProgress, obsidianThread, bg, clock,
                   nVoice, nExportRequests, nExportStarts, compaction, waited, call>>

NextRebuild ==
    \/ RebuildFirst
    \/ RebuildNextStep
    \/ RebuildSecond
    \/ Tick

SpecRebuild == InitRebuild /\ [][NextRebuild]_vars

(***************************************************************************)
(* The slug of a display name: record_raw under a name, then under the     *)
(* slug that name gave.                                                    *)
(***************************************************************************)
SLUG_CHARS == {"a", "B", "1", " ", "-", "_", "!"}

\* the display names of at most MaxSlugLen characters
SegmentNames == UNION {[1..n -> SLUG_CHARS] : n \in 0..MaxSlugLen}

\* record_raw(name, ...): the first entry of the archive
RecordUnderName(name) ==
    /\ nRecorded = 0
    /\ lastSegment' = name
    /\ SetSt(RecordRaw(St, name, "user", TXT_HI, {}, clock))
    /\ UNCHANGED <<vault, contextSummary, visionEnabled, replyThread, threads, queue,
                   mainPc, shutdownInProgress, obsidianThread, bg, sync, clock, nVoice,
                   nExportRequests, nExportStarts, compaction, waited, prevVault, call>>

\* record_raw(slug, ...), slug being the directory the first entry went to
RecordUnderSlug ==
    /\ nRecorded = 1
    /\ \E slug \in DOMAIN manifests :
           /\ lastSegment' = slug
           /\ SetSt(RecordRaw(St, slug, "assistant", TXT_HI, {}, clock))
    /\ UNCHANGED <<vault, contextSummary, visionEnabled, replyThread, threads, queue,
                   mainPc, shutdownInProgress, obsidianThread, bg, sync, clock, nVoice,
                   nExportRequests, nExportStarts, compaction, waited, prevVault, call>>

NextSlug ==
    \/ \E name \in SegmentNames : RecordUnderName(name)
    \/ RecordUnderSlug

SpecSlug == Init /\ [][NextSlug]_vars

(***************************************************************************)
(* The snapshot: save_context of the running controller, and load_context  *)
(* when the controller is started again, on files in any state.            *)
(***************************************************************************)
E_USER == [role |-> "user", content |-> TXT_BUG]

E_REPLY == [role |-> "assistant", content |-> TXT_HI]

E_PADDED == [role |-> "assistant", content |-> <<" ">> \o TXT_HI \o <<" ">>]

E_BLANK == [role |-> "assistant", content |-> <<" ">>]

E_SYSTEM == [role |-> "system", content |-> TXT_HI]

ENTRIES == {E_USER, E_PADDED, E_BLANK, E_SYSTEM}

\* the lists of at most MaxHistoryLen entries
ShortHistories == UNION {[1..n -> ENTRIES] : n \in 0..MaxHistoryLen}

\* lists of MAX_MESSAGES + 2 entries, the second one any entry
LongHistories ==
    {[i \in 1..(MAX_MESSAGES + 2) |-> IF i = 1 THEN E_USER ELSE IF i = 2 THEN e ELSE E_REPLY] :
        e \in ENTRIES}

Histories == ShortHistories \cup LongHistories

\* what conversation.json may be when the program finds it
SnapshotFiles ==
    {[kind |-> k, data |-> <<>>] : k \in FILE_KINDS \ {"array"}}
        \cup {[kind |-> "array", data |-> d] : d \in {<<>>, <<E_USER>>, <<E_SYSTEM, E_PADDED>>}}

\* what the legacy context.json may be
LegacyFiles ==
    {NoFile, [kind |-> "invalid", data |-> <<>>], [kind |-> "undecodable", data |-> <<>>],
     [kind |-> "array", data |-> <<E_USER, E_BLANK>>]}

\* a running controller whose context is h, the files being in any state
InitSnapshot ==
    /\ conversation \in Histories
    /\ \E file \in SnapshotFiles : snapshot = file.data /\ snapshotKind = file.kind
    /\ legacy \in LegacyFiles
    /\ faults = {}
    /\ raised = FALSE
    /\ savedFrom = <<>>
    /\ archive = <<>>
    /\ manifests = <<>>
    /\ summaries = <<>>
    /\ vault = NoVault
    /\ lastSegment = DEFAULT_SEGMENT
    /\ contextSummary = <<>>
    /\ visionEnabled = TRUE
    /\ replyThread = 0
    /\ threads = <<>>
    /\ queue = <<>>
    /\ mainPc = "idle"
    /\ shutdownInProgress = FALSE
    /\ obsidianThread = FALSE
    /\ bg = IdleRebuild
    /\ sync = IdleRebuild
    /\ clock = 0
    /\ nVoice = 0
    /\ nRecorded = 0
    /\ recorded = <<>>
    /\ nExportRequests = 0
    /\ nExportStarts = 0
    /\ compaction = NoCompaction
    /\ waited = "none"
    /\ prevVault = NoVault
    /\ call = NoCall

\* save_context(self._conversation)
SaveSnapshot ==
    /\ mainPc = "idle"
    /\ SetSt(SaveContext(St, conversation))
    /\ UNCHANGED <<vault, lastSegment, contextSummary, visionEnabled, replyThread, threads,
                   queue, mainPc, shutdownInProgress, obsidianThread, bg, sync, clock, nVoice,
                   nExportRequests, nExportStarts, compaction, waited, prevVault, call>>

\* the environment: the process ends and the program is started again
Restart ==
    /\ mainPc = "idle"
    /\ mainPc' = "start"
    /\ conversation' = <<>>
    /\ contextSummary' = <<>>
    /\ UNCHANGED <<snapshot, snapshotKind, legacy, faults, raised, savedFrom, archive,
                   manifests, summaries, nRecorded, recorded, vault, lastSegment, visionEnabled,
                   replyThread, threads, queue, shutdownInProgress, obsidianThread, bg, sync,
                   clock, nVoice, nExportRequests, nExportStarts, compaction, waited,
                   prevVault, call>>

\* AppController.__init__: _context_summary from the loaded conversation
SummaryOfLoaded(loaded) ==
    IF Len(loaded) = 1 /\ Contains(loaded[1].content, <<"\n">>) THEN loaded[1].content
    ELSE <<>>

\* AppController.__init__: load_context, whose exception ends the program
Startup ==
    /\ mainPc = "start"
    /\ SetSt(LoadContext(St))
    /\ mainPc' = IF raised' THEN "crashed" ELSE "idle"
    /\ lastSegment' = DEFAULT_SEGMENT
    /\ contextSummary' = IF raised' THEN contextSummary ELSE SummaryOfLoaded(conversation')
    /\ UNCHANGED <<vault, visionEnabled, replyThread, threads, queue, shutdownInProgress,
                   obsidianThread, bg, sync, clock, nVoice, nExportRequests, nExportStarts,
                   compaction, waited, prevVault, call>>

NextSnapshot ==
    \/ SaveSnapshot
    \/ Restart
    \/ Startup

SpecSnapshot == InitSnapshot /\ [][NextSnapshot]_vars

(***************************************************************************)
(* The conversation while filesystem operations fail.                      *)
(***************************************************************************)
\* the operations of the store that touch the filesystem
FS_OPS ==
    {"mkdir_raw", "write_raw", "stat_manifest", "write_manifest", "mkdir_seg",
     "write_summary", "mkdir_logs", "write_snapshot"}

\* ENOSPC or a read-only filesystem: nothing can be created or written
DISK_FULL == FS_OPS \ {"stat_manifest"}

\* EACCES: the segment directories that exist lost their search permission, so
\* nothing in them can be created, written or looked up; mkdir(exist_ok=True) of
\* such a directory passes
SEGMENTS_LOCKED == {"mkdir_raw", "write_raw", "stat_manifest", "write_manifest", "write_summary"}

\* what may be wrong with the filesystem: one operation, or one of the two above
FaultConditions ==
    {{op} : op \in FS_OPS \ {"stat_manifest"}} \cup {DISK_FULL, SEGMENTS_LOCKED}

\* the environment: the filesystem starts to fail
FaultBegins(f) ==
    /\ faults = {}
    /\ mainPc = "idle"
    /\ faults' = f
    /\ UNCHANGED <<conversation, snapshot, snapshotKind, legacy, raised, savedFrom, archive,
                   manifests, summaries, nRecorded, recorded, vault, lastSegment, contextSummary,
                   visionEnabled, replyThread, threads, queue, mainPc, shutdownInProgress,
                   obsidianThread, bg, sync, clock, nVoice, nExportRequests, nExportStarts,
                   compaction, waited, prevVault, call>>

\* the environment: the filesystem works again
FaultEnds ==
    /\ faults # {}
    /\ mainPc = "idle"
    /\ faults' = {}
    /\ UNCHANGED <<conversation, snapshot, snapshotKind, legacy, raised, savedFrom, archive,
                   manifests, summaries, nRecorded, recorded, vault, lastSegment, contextSummary,
                   visionEnabled, replyThread, threads, queue, mainPc, shutdownInProgress,
                   obsidianThread, bg, sync, clock, nVoice, nExportRequests, nExportStarts,
                   compaction, waited, prevVault, call>>

NextFaults ==
    \/ \E text \in {TXT_BUG, TXT_BYE} : PostVoiceWhenIdle(text, MaxFaultVoice)
    \/ \E f \in FaultConditions : FaultBegins(f)
    \/ FaultEnds
    \/ HandleVoiceCommand(<<>>)
    \/ HandleVoiceAccepted
    \/ \E t \in 1..Len(threads) : \E reply \in Replies : ThreadEmitResult(t, reply)
    \/ \E t \in 1..Len(threads) : ThreadFinish(t)
    \/ DeliverReply
    \/ ClearReplyThread

SpecFaults == Init /\ [][NextFaults]_vars

(***************************************************************************)
(* The process stops in the middle of the writes of a handler, and the     *)
(* program is started again.                                               *)
(***************************************************************************)
\* the characters of the model that UTF-8 encodes in more than one byte
NON_ASCII == {RSQUO, BULLET, ELLIPSIS}

\* what a snapshot cut short can be: JSON that does not parse, or, when the cut
\* falls inside a character of several bytes, bytes that are not UTF-8
TornSnapshotKinds(messages) ==
    {"invalid"} \cup
        (IF \E i \in 1..Len(messages) :
                \E j \in 1..Len(messages[i].content) : messages[i].content[j] \in NON_ASCII
         THEN {"undecodable"} ELSE {})

\* where an append_message can stop: in the write of the raw file, after it, in the
\* write of the manifest, after it, in the write of the snapshot
APPEND_STOPS == {"raw", "after_raw", "manifest", "after_manifest", "snapshot"}

\* where a compaction can stop once its two turns are recorded: in the write of
\* summary.json, after it, in the write of the snapshot
COMPACTION_STOPS == {"summary", "after_summary", "snapshot"}

\* the writes that the process does not reach, or does not finish, when it stops at
\* point
Unwritten(point) ==
    CASE point = "raw" -> FS_OPS \ {"stat_manifest"}
      [] point \in {"after_raw", "manifest"} -> {"write_manifest", "write_snapshot"}
      [] point \in {"after_manifest", "snapshot", "after_summary"} -> {"write_snapshot"}
      [] point = "summary" -> {"write_summary", "write_snapshot"}

\* the file that was being written at point is left cut short; kind is what a cut
\* snapshot is
CutShort(st, point, slug, name, kind) ==
    CASE point = "raw" -> [st EXCEPT !.archive = (<<slug, name>> :> TORN) @@ @]
      [] point = "manifest" ->
             IF slug \in DOMAIN st.manifests THEN st
             ELSE [st EXCEPT !.manifests = (slug :> TORN) @@ @]
      [] point = "summary" -> [st EXCEPT !.summaries = (slug :> TORN) @@ @]
      [] point = "snapshot" -> [st EXCEPT !.snapshotKind = kind]
      [] OTHER -> st

\* the store a handler leaves when the process stops at point: st is what the
\* handler gave with the writes of Unwritten(point) left out
StoppedAt(st, point, slug, name, kind) ==
    [CutShort(st, point, slug, name, kind) EXCEPT !.faults = {}]

\* the process stops in the append_message of _deliver_reply
StopInReply(reply, segment, point, kind) ==
    /\ SetSt(StoppedAt(AppendMessage([St EXCEPT !.faults = Unwritten(point)], "assistant",
                                     reply, TRUE, segment, {}, clock),
                       point, SegmentSlug(SegmentOrDefault(segment)),
                       RawFilename("assistant", Strip(reply), clock), kind))
    /\ kind \in TornSnapshotKinds(conversation')
    /\ mainPc' = "stopped"

\* the environment: the process is killed, or the machine stops, while _deliver_reply
\* appends the reply
StopInDeliverReply ==
    /\ Takes("result")
    /\ Head(queue).text # <<>>
    /\ \E point \in APPEND_STOPS : \E kind \in {"invalid", "undecodable"} :
           StopInReply(Head(queue).text,
                       GuessOr(InferSegment("assistant", Head(queue).text, FALSE), lastSegment),
                       point, kind)
    /\ UNCHANGED <<vault, lastSegment, contextSummary, visionEnabled, replyThread, threads,
                   shutdownInProgress, obsidianThread, bg, sync, clock, nVoice,
                   nExportRequests, nExportStarts, compaction, waited, prevVault, call>>

\* the process stops in _summarize_and_trim, the command and the reply recorded
StopInCompaction(cleaned, command_type, segment, point, kind) ==
    /\ command_type # <<>>
    /\ SetSt(StoppedAt(
                 SummarizeAndTrim(
                     AppendMessage([St EXCEPT !.faults = Unwritten(point)], "user", cleaned,
                                   FALSE, segment, {}, clock),
                     segment, IF command_type = KW_BYE THEN BYE_REPLY ELSE STOP_REPLY,
                     <<>>, contextSummary, clock).st,
                 point, SegmentSlug(segment), <<>>, kind))
    /\ kind \in TornSnapshotKinds(conversation')
    /\ mainPc' = "stopped"

\* the environment: the process is killed, or the machine stops, while a bye or stop
\* command is compacted
StopInVoiceCommand ==
    /\ Takes("voice")
    /\ Head(queue).text # <<>>
    /\ ~ReplyRunning
    /\ Strip(Head(queue).text) # <<>>
    /\ \E point \in COMPACTION_STOPS : \E kind \in {"invalid", "undecodable"} :
           StopInCompaction(Strip(Head(queue).text), CommandType(Strip(Head(queue).text)),
                            InferSegment("user", Strip(Head(queue).text), FALSE), point, kind)
    /\ UNCHANGED <<vault, lastSegment, contextSummary, visionEnabled, replyThread, threads,
                   shutdownInProgress, obsidianThread, bg, sync, clock, nVoice,
                   nExportRequests, nExportStarts, compaction, waited, prevVault, call>>

\* the environment: the program is started again after the process stopped
StartAgain ==
    /\ mainPc = "stopped"
    /\ mainPc' = "start"
    /\ conversation' = <<>>
    /\ contextSummary' = <<>>
    /\ replyThread' = 0
    /\ threads' = <<>>
    /\ queue' = <<>>
    /\ obsidianThread' = FALSE
    /\ bg' = IdleRebuild
    /\ UNCHANGED <<snapshot, snapshotKind, legacy, faults, raised, savedFrom, archive,
                   manifests, summaries, nRecorded, recorded, vault, lastSegment,
                   visionEnabled, shutdownInProgress, sync, clock, nVoice, nExportRequests,
                   nExportStarts, compaction, waited, prevVault, call>>

\* the vault is rebuilt (json_to_obsidian.main) while no handler runs
RebuildAtRest ==
    /\ mainPc \in {"idle", "crashed"}
    /\ queue = <<>>
    /\ RebuildFirst

NextCrash ==
    \/ \E text \in {TXT_BUG, TXT_BYE} : mainPc = "idle" /\ PostVoiceWhenIdle(text, MaxCrashVoice)
    \/ HandleVoiceAccepted
    \/ \E t \in 1..Len(threads) : \E reply \in {TXT_HI, TXT_QUOTE} : ThreadEmitResult(t, reply)
    \/ \E t \in 1..Len(threads) : ThreadFinish(t)
    \/ DeliverReply
    \/ ClearReplyThread
    \/ StopInDeliverReply
    \/ StopInVoiceCommand
    \/ StartAgain
    \/ Startup
    \/ RebuildAtRest
    \/ RebuildNextStep

SpecCrash == Init /\ [][NextCrash]_vars

(***************************************************************************)
(* The export thread while the vault tree cannot be written.               *)
(***************************************************************************)
\* the vault directory cannot be removed, made or written (rmtree, mkdir and
\* write_text of json_to_obsidian raise OSError)
VAULT_LOCKED == {"write_vault"}

NextExport ==
    \/ \E text \in {TXT_BUG, TXT_BYE} : PostVoiceWhenIdle(text, MaxExportVoice)
    \/ FaultBegins(VAULT_LOCKED)
    \/ FaultEnds
    \/ HandleVoiceCommand(<<>>)
    \/ HandleVoiceAccepted
    \/ \E t \in 1..Len(threads) : \E reply \in Replies : ThreadEmitResult(t, reply)
    \/ \E t \in 1..Len(threads) : ThreadFinish(t)
    \/ DeliverReply
    \/ ClearReplyThread
    \/ ExportBegin
    \/ ExportStep
    \/ ExportFinally

SpecExport == Init /\ [][NextExport]_vars

(***************************************************************************)
(* The exporter run on an archive, a vault of an earlier export being      *)
(* there or not.                                                           *)
(***************************************************************************)
\* the notes of the segments segs of the store st, written into the vault v
RECURSIVE BuildSegments(_, _, _)
BuildSegments(v, segs, st) ==
    IF segs = <<>> THEN v
    ELSE BuildSegments(BuildSegmentNotes(v, Head(segs), st.archive, st.summaries, 0),
                       Tail(segs), st)

\* the vault an export of the store st left
ExportedVault(st) ==
    [BuildSegments(EmptyVault, ListSegments(st.archive, st.manifests, st.summaries), st)
     EXCEPT !.index = IndexNote(ListSegments(st.archive, st.manifests, st.summaries),
                                [seg \in SegmentDirs(st.archive, st.manifests, st.summaries)
                                     |-> SummaryTitle(seg)])]

\* what is at logs/obsidian_vault before the rebuild: nothing, or the vault of an
\* archive that had other segments and entries, its settings folder removed or not
EarlierVaults ==
    {NoVault, ExportedVault(StoreBye), [ExportedVault(StoreError) EXCEPT !.settings = FALSE]}

InitVault ==
    /\ \E st \in RebuildStores :
           /\ conversation = st.conversation
           /\ snapshot = st.snapshot
           /\ snapshotKind = st.snapshotKind
           /\ legacy = st.legacy
           /\ faults = st.faults
           /\ raised = st.raised
           /\ savedFrom = st.savedFrom
           /\ archive = st.archive
           /\ manifests = st.manifests
           /\ summaries = st.summaries
           /\ nRecorded = st.nRecorded
           /\ recorded = st.recorded
    /\ vault \in EarlierVaults
    /\ lastSegment = DEFAULT_SEGMENT
    /\ contextSummary = <<>>
    /\ visionEnabled = TRUE
    /\ replyThread = 0
    /\ threads = <<>>
    /\ queue = <<>>
    /\ mainPc = "idle"
    /\ shutdownInProgress = FALSE
    /\ obsidianThread = FALSE
    /\ bg = IdleRebuild
    /\ sync = IdleRebuild
    /\ clock = 0
    /\ nVoice = 0
    /\ nExportRequests = 0
    /\ nExportStarts = 0
    /\ compaction = NoCompaction
    /\ waited = "none"
    /\ prevVault = vault
    /\ call = NoCall

NextVault ==
    \/ RebuildFirst
    \/ RebuildNextStep
    \/ Tick

SpecVault == InitVault /\ [][NextVault]_vars

(***************************************************************************)
(* The exporter run once while the controller goes on recording.           *)
(***************************************************************************)
NextIndex ==
    \/ \E text \in {TXT_BUG, TXT_BYE} : PostVoiceWhenIdle(text, MaxIndexVoice)
    \/ HandleVoiceCommand(<<>>)
    \/ HandleVoiceAccepted
    \/ \E t \in 1..Len(threads) : \E reply \in Replies : ThreadEmitResult(t, reply)
    \/ \E t \in 1..Len(threads) : ThreadFinish(t)
    \/ DeliverReply
    \/ ClearReplyThread
    \/ RebuildFirst
    \/ RebuildNextStep

SpecIndex == InitVault /\ [][NextIndex]_vars

(***************************************************************************)
(* _infer_segment called on its own.                                       *)
(***************************************************************************)
\* texts to classify: nothing, blanks, no keyword, a keyword in capitals, a keyword
\* inside a word, keywords of two rules in either order
ClassifyTexts ==
    {<<>>, <<" ">>, <<" ", "\t">>, TXT_HI, <<"B", "u", "g">>, <<"d", "e", "b", "u", "g">>,
     <<"b", "u", "g", " ", "b", "y", "e">>, <<"p", "l", "a", "n", " ", "b", "u", "g">>,
     <<"b", "u", "g", " ", "p", "l", "a", "n">>}

\* rule lists: SEGMENT_RULES, its first three rules in the reverse order, its third
\* rule alone, none
RuleLists ==
    {SEGMENT_RULES, <<SEGMENT_RULES[3], SEGMENT_RULES[2], SEGMENT_RULES[1]>>,
     <<SEGMENT_RULES[3]>>, <<>>}

\* _infer_segment is called
Classify(rules, role, content, include_screen) ==
    /\ call' = [fn |-> "infer_segment", rules |-> rules, role |-> role, content |-> content,
                include_screen |-> include_screen,
                result |-> InferSegmentWith(rules, role, content, include_screen)]
    /\ UNCHANGED <<storeVars, vault, lastSegment, contextSummary, visionEnabled, replyThread,
                   threads, queue, mainPc, shutdownInProgress, obsidianThread, bg, sync, clock,
                   nVoice, nExportRequests, nExportStarts, compaction, waited, prevVault>>

NextClassify ==
    \E rules \in RuleLists : \E role \in ROLES : \E content \in ClassifyTexts :
        \E include_screen \in BOOLEAN : Classify(rules, role, content, include_screen)

SpecClassify == Init /\ [][NextClassify]_vars

(***************************************************************************)
(* The segment store called on its own: record_raw and                     *)
(* update_segment_summary under display names that share slugs, while the  *)
(* clock advances and writes fail.                                         *)
(***************************************************************************)
\* display names: "Work" and "work!" have the slug work, "a b" the slug a-b
StoreNames == {<<"W", "o", "r", "k">>, <<"w", "o", "r", "k", "!">>, <<"a", " ", "b">>}

\* the arguments of an update: the summary (empty, blank, one bullet line, one
\* plain line after a space), the facts (None or a list) and updated (None or a
\* timestamp)
StoreUpdates ==
    {[summary |-> <<>>, facts |-> NO_FACTS, updated |-> NO_UPDATED],
     [summary |-> <<" ">>, facts |-> GivenFacts(<<TXT_BUG>>), updated |-> 5],
     [summary |-> DIGEST_HELLO, facts |-> NO_FACTS, updated |-> NO_UPDATED],
     [summary |-> DIGEST_HELLO, facts |-> GivenFacts(<<TXT_BUG>>), updated |-> 5],
     [summary |-> <<" ">> \o TXT_HI, facts |-> NO_FACTS, updated |-> 5]}

\* SegmentStore.record_raw(segment, "user", "hi")
RecordRawCall(segment) ==
    /\ CallCount < MaxStoreCalls
    /\ SetSt(RecordRaw(St, segment, "user", TXT_HI, {}, clock))
    /\ call' = [fn |-> "record_raw", n |-> CallCount + 1, segment |-> segment]
    /\ UNCHANGED <<vault, lastSegment, contextSummary, visionEnabled, replyThread, threads,
                   queue, mainPc, shutdownInProgress, obsidianThread, bg, sync, clock, nVoice,
                   nExportRequests, nExportStarts, compaction, waited, prevVault>>

\* update_segment_summary(segment, summary, facts=, updated=); replaced tells that
\* the segment had a summary.json
UpdateSummaryCall(segment, summary, facts, updated) ==
    /\ CallCount < MaxStoreCalls
    /\ SetSt(UpdateSegmentSummaryWith(St, segment, summary, facts, updated, clock))
    /\ call' = [fn |-> "update_segment_summary", n |-> CallCount + 1, segment |-> segment,
                summary |-> summary, facts |-> facts, updated |-> updated,
                replaced |-> SegmentSlug(segment) \in DOMAIN summaries]
    /\ UNCHANGED <<vault, lastSegment, contextSummary, visionEnabled, replyThread, threads,
                   queue, mainPc, shutdownInProgress, obsidianThread, bg, sync, clock, nVoice,
                   nExportRequests, nExportStarts, compaction, waited, prevVault>>

\* the writes of one file fail: segment.json, or summary.json
StoreFaults == {{"write_manifest"}, {"write_summary"}}

NextStore ==
    \/ \E segment \in StoreNames : RecordRawCall(segment)
    \/ \E segment \in StoreNames : \E u \in StoreUpdates :
           UpdateSummaryCall(segment, u.summary, u.facts, u.updated)
    \/ \E f \in StoreFaults : FaultBegins(f)
    \/ FaultEnds
    \/ Tick

SpecStore == Init /\ [][NextStore]_vars

\* lines of a summary: bulleted, numbered, plain, blank, of markers only, and with
\* a text that begins with a number
FactLines ==
    {<<"-", " ", "a">>, <<"*", " ", "A">>, <<"1", ".", " ", "a">>, <<"-", " ", "3", " ", "a">>,
     <<"b">>, <<" ">>, <<"-", "-">>, <<"2", " ", "b">>, <<"a", ".">>, <<" ", "-", " ", "b", " ">>}

\* summaries of one line and of two
FactSummaries == FactLines \cup {a \o <<"\n">> \o b : a, b \in FactLines}

\* update_segment_summary(DEFAULT_SEGMENT, summary): no facts are given
DeriveFactsCall(summary) ==
    /\ SetSt(UpdateSegmentSummaryWith(St, DEFAULT_SEGMENT, summary, NO_FACTS, NO_UPDATED, clock))
    /\ call' = [fn |-> "update_segment_summary", n |-> 1, segment |-> DEFAULT_SEGMENT,
                summary |-> summary, facts |-> NO_FACTS, updated |-> NO_UPDATED,
                replaced |-> SegmentSlug(DEFAULT_SEGMENT) \in DOMAIN summaries]
    /\ UNCHANGED <<vault, lastSegment, contextSummary, visionEnabled, replyThread, threads,
                   queue, mainPc, shutdownInProgress, obsidianThread, bg, sync, clock, nVoice,
                   nExportRequests, nExportStarts, compaction, waited, prevVault>>

NextFacts == \E summary \in FactSummaries : DeriveFactsCall(summary)

SpecFacts == Init /\ [][NextFacts]_vars

\* words of a text: stop words, words of three letters and fewer, words with a
\* capital, an apostrophe or digits, and words that are kept
KeywordWords ==
    {<<"t", "h", "e">>,
     <<"b", "u", "g">>,
     <<"d", "e", "p", "l", "o", "y">>,
     <<"D", "e", "p", "l", "o", "y">>,
     <<"d", "o", "n", "'", "t">>,
     <<"j", "o", "h", "n", "'", "s">>,
     <<"j", "o", "h", "n", "s">>,
     <<"n", "o", "t", "e", "s">>,
     <<"w", "i", "t", "h">>,
     <<"a", "1", "b", "2">>,
     <<"i", "t", "'", "s">>,
     <<"i", "n">>}

\* the sentence of the specification
KEYWORD_EXAMPLE ==
    <<"T", "h", "e", " ", "b", "u", "g", " ", "i", "n", " ", "t", "h", "e", " ", "d", "e", "p", "l", "o", "y", " ", "s", "c", "r", "i", "p", "t", " ", "b", "r", "o", "k", "e", " ", "t", "h", "e", " ", "m", "e", "e", "t", "i", "n", "g", " ",
      "n", "o", "t", "e", "s">>

\* a sentence of seven words that are kept
KEYWORD_SEVEN ==
    <<"d", "e", "p", "l", "o", "y", " ", "s", "c", "r", "i", "p", "t", " ", "b", "r", "o", "k", "e", " ", "m", "e", "e", "t", "i", "n", "g", " ", "n", "o", "t", "e", "s", " ", "a", "g", "a", "i", "n", " ", "t", "o", "d", "a", "y">>

\* texts of one word, of two, and the two sentences
KeywordTexts ==
    KeywordWords \cup {a \o <<" ">> \o b : a, b \in KeywordWords}
        \cup {KEYWORD_EXAMPLE, KEYWORD_SEVEN}

\* extract_keywords(text), limit being its default
ExtractKeywordsCall(text) ==
    /\ call' = [fn |-> "extract_keywords", text |-> text, result |-> ExtractKeywords(text, 5)]
    /\ UNCHANGED <<storeVars, vault, lastSegment, contextSummary, visionEnabled, replyThread,
                   threads, queue, mainPc, shutdownInProgress, obsidianThread, bg, sync, clock,
                   nVoice, nExportRequests, nExportStarts, compaction, waited, prevVault>>

NextKeywords == \E text \in KeywordTexts : ExtractKeywordsCall(text)

SpecKeywords == Init /\ [][NextKeywords]_vars

\* what conversation.json may be when the program is started: missing, no JSON, or
\* a list with well-formed and other entries
TurnSnapshots ==
    {NoFile, [kind |-> "invalid", data |-> <<>>], [kind |-> "array", data |-> <<E_USER>>],
     [kind |-> "array", data |-> <<E_SYSTEM, E_PADDED>>]}

\* what the legacy context.json may be then
TurnLegacies == {NoFile, [kind |-> "array", data |-> <<E_USER, E_BLANK>>]}

\* the program is started, the two files being in any of these states
InitTurns ==
    /\ conversation = <<>>
    /\ \E file \in TurnSnapshots : snapshot = file.data /\ snapshotKind = file.kind
    /\ legacy \in TurnLegacies
    /\ faults = {}
    /\ raised = FALSE
    /\ savedFrom = <<>>
    /\ archive = <<>>
    /\ manifests = <<>>
    /\ summaries = <<>>
    /\ vault = NoVault
    /\ lastSegment = DEFAULT_SEGMENT
    /\ contextSummary = <<>>
    /\ visionEnabled = TRUE
    /\ replyThread = 0
    /\ threads = <<>>
    /\ queue = <<>>
    /\ mainPc = "start"
    /\ shutdownInProgress = FALSE
    /\ obsidianThread = FALSE
    /\ bg = IdleRebuild
    /\ sync = IdleRebuild
    /\ clock = 0
    /\ nVoice = 0
    /\ nRecorded = 0
    /\ recorded = <<>>
    /\ nExportRequests = 0
    /\ nExportStarts = 0
    /\ compaction = NoCompaction
    /\ waited = "none"
    /\ prevVault = NoVault
    /\ call = NoCall

\* the environment: the program, at rest, is ended and started again
RestartAtRest ==
    /\ queue = <<>>
    /\ ~ReplyRunning
    /\ Restart

\* the environment: something is heard once the program runs
PostVoiceToRunning(text) ==
    /\ mainPc = "idle"
    /\ PostVoice(text, MaxTurnVoice)

NextTurns ==
    \/ Startup
    \/ RestartAtRest
    \/ \E text \in VoiceTexts \cup {<<" ">>} : PostVoiceToRunning(text)
    \/ HandleVoiceIgnored
    \/ \E oracle \in Oracles : HandleVoiceCommand(oracle)
    \/ HandleVoiceAccepted
    \/ \E t \in 1..Len(threads) : \E reply \in Replies : ThreadEmitResult(t, reply)
    \/ \E t \in 1..Len(threads) : \E err \in ReplyErrors \cup {<<>>} : ThreadEmitError(t, err)
    \/ \E t \in 1..Len(threads) : ThreadFinish(t)
    \/ DeliverReply
    \/ HandleReplyError
    \/ ClearReplyThread

SpecTurns == InitTurns /\ [][NextTurns]_vars

(***************************************************************************)
(* The bye or stop branch of _handle_voice_text, one call at a time.       *)
(***************************************************************************)
\* _handle_voice_text: the reply to a command
CommandReply(command_type) == IF command_type = KW_BYE THEN BYE_REPLY ELSE STOP_REPLY

\* the reply to the command that the last turn of the rolling context is
PendingReply == CommandReply(CommandType(conversation[Len(conversation)].content))

\* _handle_voice_text, command branch: append_message of the utterance that also
\* saves the snapshot
CommandAppendUserSaves ==
    /\ Takes("voice")
    /\ Head(queue).text # <<>>
    /\ ~ReplyRunning
    /\ Strip(Head(queue).text) # <<>>
    /\ CommandType(Strip(Head(queue).text)) # <<>>
    /\ lastSegment' = InferSegment("user", Strip(Head(queue).text), FALSE)
    /\ SetSt(AppendMessage(St, "user", Strip(Head(queue).text), TRUE, lastSegment', {}, clock))
    /\ mainPc' = "cmd_reply"
    /\ UNCHANGED <<vault, contextSummary, visionEnabled, replyThread, threads,
                   shutdownInProgress, obsidianThread, bg, sync, clock, nVoice,
                   nExportRequests, nExportStarts, compaction, waited, prevVault, call>>

\* _handle_voice_text, command branch: _infer_segment, then append_message of the
\* utterance with auto_save=False
CommandAppendUser ==
    /\ Takes("voice")
    /\ Head(queue).text # <<>>
    /\ ~ReplyRunning
    /\ Strip(Head(queue).text) # <<>>
    /\ CommandType(Strip(Head(queue).text)) # <<>>
    /\ lastSegment' = InferSegment("user", Strip(Head(queue).text), FALSE)
    /\ SetSt(AppendMessage(St, "user", Strip(Head(queue).text), FALSE, lastSegment', {}, clock))
    /\ mainPc' = "cmd_reply"
    /\ UNCHANGED <<vault, contextSummary, visionEnabled, replyThread, threads,
                   shutdownInProgress, obsidianThread, bg, sync, clock, nVoice,
                   nExportRequests, nExportStarts, compaction, waited, prevVault, call>>

\* _summarize_and_trim: append_message of the reply with auto_save=False
CommandAppendReply ==
    /\ mainPc = "cmd_reply"
    /\ SetSt(AppendMessage(St, "assistant", PendingReply, FALSE, lastSegment, {}, clock))
    /\ mainPc' = "cmd_summarize"
    /\ UNCHANGED <<vault, lastSegment, contextSummary, visionEnabled, replyThread, threads,
                   queue, shutdownInProgress, obsidianThread, bg, sync, clock, nVoice,
                   nExportRequests, nExportStarts, compaction, waited, prevVault, call>>

\* _summarize_and_trim from summarize_history on, then the export request of
\* _handle_voice_text
CommandSummarize(oracle) ==
    /\ mainPc = "cmd_summarize"
    /\ Compacted(SummarizeAppended(St, lastSegment, oracle, contextSummary, clock), oracle)
    /\ mainPc' = "idle"
    /\ TriggerObsidianExport
    /\ UNCHANGED <<vault, lastSegment, visionEnabled, replyThread, threads, queue,
                   shutdownInProgress, sync, clock, nVoice, waited, prevVault, call>>

NextBye ==
    \/ \E text \in {TXT_BUG, TXT_BYE, KW_STOP, TXT_BUG_BYE} : PostVoiceWhenIdle(text, MaxByeVoice)
    \/ CommandAppendUser
    \/ CommandAppendReply
    \/ \E oracle \in Oracles : CommandSummarize(oracle)
    \/ HandleVoiceAccepted
    \/ \E t \in 1..Len(threads) : \E reply \in Replies : ThreadEmitResult(t, reply)
    \/ \E t \in 1..Len(threads) : ThreadFinish(t)
    \/ DeliverReply
    \/ ClearReplyThread

SpecBye == Init /\ [][NextBye]_vars

(***************************************************************************)
(* Direct calls of append_message.                                         *)
(***************************************************************************)
\* contents: plain, padded with spaces, blank
AppendContents == {TXT_BUG, <<" ">> \o TXT_HI \o <<" ">>, <<" ">>}

\* the segment argument: None or a display name
AppendSegments == {<<>>, <<"W", "o", "r", "k">>}

\* append_message(self._conversation, role, content, auto_save=, segment=)
AppendMessageCall(role, content, auto_save, segment) ==
    /\ CallCount < MaxStoreCalls
    /\ SetSt(AppendMessage(St, role, content, auto_save, segment, {}, clock))
    /\ call' = [fn |-> "append_message", n |-> CallCount + 1, role |-> role,
                content |-> content, auto_save |-> auto_save, segment |-> segment]
    /\ UNCHANGED <<vault, lastSegment, contextSummary, visionEnabled, replyThread, threads,
                   queue, mainPc, shutdownInProgress, obsidianThread, bg, sync, clock, nVoice,
                   nExportRequests, nExportStarts, compaction, waited, prevVault>>

NextAppendCalls ==
    \/ \E role \in ROLES : \E content \in AppendContents : \E auto_save \in BOOLEAN :
           \E segment \in AppendSegments : AppendMessageCall(role, content, auto_save, segment)
    \/ Tick

SpecAppendCalls == Init /\ [][NextAppendCalls]_vars

(***************************************************************************)
(* _trigger_obsidian_export_internal read by read: the test of               *)
(* self._obsidian_thread, the second read for is_alive(), the third for      *)
(* join(), with the export thread running beside them.                       *)
(***************************************************************************)
\* the turns stored before the requests
RaceAppend ==
    /\ mainPc = "idle"
    /\ \E content \in {TXT_BUG, TXT_HI} :
           AppendMessageCall("user", content, TRUE, <<>>)

\* `self._obsidian_thread and ...`: the first read of the slot; an empty slot is the
\* rest of the call (a thread is started, or the slot is cleared and the rebuild
\* on the main thread is next)
ExportRequestTest(blocking) ==
    /\ mainPc = "idle"
    /\ nExportRequests < MaxRaceRequests
    /\ UNCHANGED <<storeVars, vault, lastSegment, contextSummary, visionEnabled, replyThread,
                   threads, queue, shutdownInProgress, sync, clock, nVoice, compaction,
                   waited, prevVault, call>>
    /\ nExportRequests' = nExportRequests + 1
    /\ IF obsidianThread
       THEN /\ mainPc' = IF blocking THEN "b_query" ELSE "nb_query"
            /\ UNCHANGED <<obsidianThread, bg, nExportStarts>>
       ELSE IF blocking
            THEN /\ mainPc' = "sd_export"
                 /\ UNCHANGED <<obsidianThread, bg, nExportStarts>>
            ELSE /\ mainPc' = "idle"
                 /\ obsidianThread' = TRUE
                 /\ bg' = ExportStarted
                 /\ nExportStarts' = nExportStarts + 1

\* `self._obsidian_thread.is_alive()`: the second read of the slot; None has no
\* is_alive (AttributeError, which nothing catches); a thread that has not cleared
\* the slot is alive: the non-blocking request returns, the blocking one goes on
ExportRequestQuery ==
    /\ mainPc \in {"nb_query", "b_query"}
    /\ mainPc' = IF ~obsidianThread THEN "raised"
                 ELSE IF mainPc = "nb_query" THEN "idle" ELSE "b_join"
    /\ UNCHANGED <<storeVars, vault, lastSegment, contextSummary, visionEnabled, replyThread,
                   threads, queue, shutdownInProgress, obsidianThread, bg, sync, clock, nVoice,
                   nExportRequests, nExportStarts, compaction, waited, prevVault, call>>

\* `self._obsidian_thread.join(timeout=5)`: the third read of the slot; None has
\* no join (AttributeError); otherwise the join of the thread read begins
ExportRequestJoin ==
    /\ mainPc = "b_join"
    /\ mainPc' = IF ~obsidianThread THEN "raised" ELSE "sd_join"
    /\ UNCHANGED <<storeVars, vault, lastSegment, contextSummary, visionEnabled, replyThread,
                   threads, queue, shutdownInProgress, obsidianThread, bg, sync, clock, nVoice,
                   nExportRequests, nExportStarts, compaction, waited, prevVault, call>>

NextRace ==
    \/ RaceAppend
    \/ \E blocking \in BOOLEAN : ExportRequestTest(blocking)
    \/ ExportRequestQuery
    \/ ExportRequestJoin
    \/ ShutdownJoinReturn
    \/ ShutdownExportBegin
    \/ ShutdownExportStep
    \/ ExportBegin
    \/ ExportStep
    \/ ExportFinally

SpecRace == Init /\ [][NextRace]_vars

(***************************************************************************)
(* The reply lifecycle with its scheduling: a reply thread that is running  *)
(* emits its result or its error and returns, and the event loop of the     *)
(* main thread handles the event at the head of its queue.                  *)
(***************************************************************************)
\* ReplyThread.run of thread t comes to its emit
ReplyReturns(t) ==
    /\ t \in DOMAIN threads
    /\ \/ \E reply \in Replies : ThreadEmitResult(t, reply)
       \/ \E err \in ReplyErrors : ThreadEmitError(t, err)

\* QThread of thread t ends
ReplyEnds(t) == t \in DOMAIN threads /\ ThreadFinish(t)

\* QApplication.exec: the slot of the oldest queued signal is run; every handler
\* takes the signal it handles off the queue, and nothing else does
EventLoopRuns == mainPc = "idle" /\ queue # <<>> /\ queue' = Tail(queue)

\* a reply thread takes its next step
ReplyThreadRuns == \E t \in 1..MaxLiveVoice : ReplyReturns(t) \/ ReplyEnds(t)

NextReplyLive ==
    \/ PostVoice(TXT_BUG, MaxLiveVoice)
    \/ HandleVoiceIgnored
    \/ HandleVoiceAccepted
    \/ \E t \in 1..Len(threads) : \E reply \in Replies : ThreadEmitResult(t, reply)
    \/ \E t \in 1..Len(threads) : \E err \in ReplyErrors : ThreadEmitError(t, err)
    \/ \E t \in 1..Len(threads) : ThreadFinish(t)
    \/ DeliverReply
    \/ HandleReplyError
    \/ ClearReplyThread

SpecReplyLive ==
    /\ Init
    /\ [][NextReplyLive]_vars
    /\ WF_vars(ReplyThreadRuns)
    /\ WF_queue(EventLoopRuns)

(***************************************************************************)
(* Utterances and bye commands spoken at any time, while reply threads run.  *)
(***************************************************************************)
NextBusy ==
    \/ \E text \in {TXT_BUG, TXT_BYE} : PostVoice(text, MaxBusyVoice)
    \/ HandleVoiceIgnored
    \/ HandleVoiceAccepted
    \/ \E oracle \in {<<>>, DIGEST_HELLO} : HandleVoiceCommand(oracle)
    \/ \E t \in 1..Len(threads) : \E reply \in Replies : ThreadEmitResult(t, reply)
    \/ \E t \in 1..Len(threads) : ThreadFinish(t)
    \/ DeliverReply
    \/ ClearReplyThread
    \/ ExportBegin
    \/ ExportStep
    \/ ExportFinally

SpecBusy == Init /\ [][NextBusy]_vars

(***************************************************************************)
(* Shutdown requested more than once: the requests that come while the      *)
(* first one is being handled are delivered when its handler has returned.  *)
(***************************************************************************)
\* the environment: the user asks to shut down again
PostShutdownAgain ==
    /\ shutdownInProgress
    /\ CallCount < MaxRepeatedShutdown
    /\ \A i \in 1..Len(queue) : queue[i].type # "shutdown"
    /\ queue' = Append(queue, Event("shutdown", 0, <<>>))
    /\ UNCHANGED <<storeVars, vault, lastSegment, contextSummary, visionEnabled, replyThread,
                   threads, mainPc, shutdownInProgress, obsidianThread, bg, sync, clock,
                   nVoice, nExportRequests, nExportStarts, compaction, waited, prevVault, call>>

NextShutdownTwice ==
    \/ \E text \in {TXT_BUG, TXT_BYE} : PostVoiceWhenIdle(text, MaxShutdownVoice)
    \/ PostShutdown
    \/ PostShutdownAgain
    \/ HandleVoiceCommand(<<>>)
    \/ HandleVoiceAccepted
    \/ \E t \in 1..Len(threads) : \E reply \in Replies : ThreadEmitResult(t, reply)
    \/ \E t \in 1..Len(threads) : ThreadFinish(t)
    \/ DeliverReply
    \/ ClearReplyThread
    \/ ExportBegin
    \/ ExportStep
    \/ ExportFinally
    \/ HandleShutdownRequest
    \/ HandleShutdownRequestAgain
    \/ ShutdownWaitReturn
    \/ \E oracle \in {<<>>, DIGEST_HELLO} : ShutdownFinalize(oracle)
    \/ ShutdownJoinReturn
    \/ ShutdownExportBegin
    \/ ShutdownExportStep

SpecShutdownTwice == Init /\ [][NextShutdownTwice]_vars

(***************************************************************************)
(* Properties.                                                             *)
(***************************************************************************)

\* C1: for any sequence of appended turns the rolling context held by the
\* controller has length min(40, number of turns appended), the oldest turns
\* being dropped (checked where no compaction happens, every append being one
\* record_raw call).
RollingContextCapped ==
    Len(conversation) = Min(MAX_MESSAGES, nRecorded)

\* the reply threads that are running
RunningThreads == {t \in 1..Len(threads) : threads[t].pc # "finished"}

\* C2: in every reachable state at most one reply thread is running, and the
\* reply slot being empty never hides a running thread.
AtMostOneReplyRunning ==
    /\ Cardinality(RunningThreads) <= 1
    /\ replyThread = 0 => RunningThreads = {}

\* C3: in every reachable state at most one execution of the vault rebuild is in
\* progress, the background one and the synchronous one at shutdown counted.
AtMostOneRebuild ==
    ~(bg.pc = "build" /\ sync.pc = "build")

\* C4: a non-blocking export request made while the export thread is alive starts
\* no export and leaves nothing behind: an export thread is started only in the
\* step of a request made while none is alive, so the end of an export starts none.
DroppedExportRequest ==
    [][/\ (nExportRequests' # nExportRequests /\ obsidianThread)
           => (bg' = bg /\ obsidianThread' /\ nExportStarts' = nExportStarts)
       /\ (nExportStarts' # nExportStarts \/ (bg.pc = "idle" /\ bg'.pc # "idle"))
           => (nExportRequests' = nExportRequests + 1 /\ ~obsidianThread
               /\ nExportStarts' = nExportStarts + 1)]_vars

\* a request was dropped, the export it met has ended and no other was started
DroppedExportRequestSeen ==
    /\ nExportRequests = 2
    /\ nExportStarts = 1
    /\ bg.pc = "idle"
    /\ ~obsidianThread
    /\ ~shutdownInProgress
    /\ vault.index.written

\* C5: when a shutdown request completes, the reply of a turn that was in flight
\* at the request and finished within the bounded wait has been appended (it is in
\* the finalized context and in the archive the synchronous export read).
ShutdownCapturesReply ==
    (mainPc = "quit" /\ waited = "finished")
        => \A t \in 1..Len(threads) : threads[t].reply # <<>> => threads[t].delivered

\* C6: any two record_raw calls produce distinct file names, so N recorded turns
\* yield N raw files.
DistinctRawFilenames ==
    Cardinality(DOMAIN archive) = nRecorded

\* C7: a raw entry once written is never deleted and its stored content never
\* changes.
RawEntriesImmutable ==
    [][\A k \in DOMAIN archive : k \in DOMAIN archive' /\ archive'[k] = archive[k]]_vars

\* the step is a compaction (_summarize_and_trim has run)
CompactionStep == compaction'.n = compaction.n + 1

\* C8: when compaction gets a non-empty digest d, the rolling context afterwards is
\* exactly one assistant turn holding d, the summary of the current segment is d
\* with the facts of d (no fact empty or beginning with a marker), and the
\* persisted snapshot is that one-turn context; the digest "- said hello" gives the
\* facts <<"said hello">>.
CompactionToDigest ==
    [][(CompactionStep /\ compaction'.summary # <<>>)
           => /\ conversation' = <<[role |-> "assistant", content |-> compaction'.summary]>>
              /\ snapshot' = conversation'
              /\ contextSummary' = compaction'.summary
              /\ SegmentSlug(lastSegment') \in DOMAIN summaries'
              /\ summaries'[SegmentSlug(lastSegment')].summary = compaction'.summary
              /\ \A i \in DOMAIN summaries'[SegmentSlug(lastSegment')].facts :
                     LET fact == summaries'[SegmentSlug(lastSegment')].facts[i] IN
                     fact # <<>> /\ Head(fact) \notin FACT_MARKERS
              /\ (compaction'.oracle = DIGEST_HELLO)
                     => /\ compaction'.summary = DIGEST_HELLO
                        /\ summaries'[SegmentSlug(lastSegment')].facts = <<FACT_HELLO>>]_vars

\* a compaction with the digest "- said hello" has just happened
CompactionToDigestSeen ==
    /\ compaction.n > 0
    /\ compaction.oracle = DIGEST_HELLO
    /\ Len(compaction.history) > 2
    /\ conversation = <<[role |-> "assistant", content |-> DIGEST_HELLO]>>
    /\ snapshot = conversation
    /\ SegmentSlug(lastSegment) \in DOMAIN summaries
    /\ summaries[SegmentSlug(lastSegment)].facts = <<FACT_HELLO>>

RebuildTwiceSame ==
    (sync.pc = "done" /\ prevVault.exists) => vault = prevVault

\* C11: the slug of every display name is non-empty, made of lowercase letters,
\* digits, "-" and "_" only, neither begins nor ends with "-" or "_", and is its
\* own slug: an entry recorded under the slug goes to the directory of the name.
SlugSafeIdempotent ==
    /\ \A slug \in DOMAIN manifests :
           /\ slug # <<>>
           /\ \A i \in 1..Len(slug) : slug[i] \in SLUG_OK
           /\ slug[1] \notin {"-", "_"} /\ slug[Len(slug)] \notin {"-", "_"}
           /\ SegmentSlug(slug) = slug
           /\ slug = SegmentSlug(manifests[slug].segment)
    /\ Cardinality(DOMAIN manifests) <= 1
    /\ \A k \in DOMAIN archive : k[1] \in DOMAIN manifests

\* C11 witness: a name without a usable character went to the default directory, and
\* so did the entry recorded under that slug
SlugDefaultSeen ==
    /\ nRecorded = 2
    /\ Cardinality(DOMAIN archive) = 2
    /\ DOMAIN manifests = {SLUG_DEFAULT}
    /\ manifests[SLUG_DEFAULT].segment = <<"!", "_", "-">>

\* C12: when conversation.json is missing, unreadable, not valid JSON or not a JSON
\* array, load_context raises nothing and returns the empty list, whatever the
\* legacy file is.
LoadEmptyOnBadSnapshot ==
    [][(mainPc = "start" /\ mainPc' # "start" /\ snapshotKind # "array")
           => (~raised' /\ conversation' = <<>>)]_vars

\* an entry is well formed: role user or assistant, content not blank
WellFormed(e) == e.role \in {"user", "assistant"} /\ Strip(e.content) # <<>>

\* the well-formed entries of h, reduced to role and trimmed content, the last 40
ExpectedLoad(h) ==
    LET kept == SelectSeq(h, WellFormed)
        n == Len(kept)
        from == IF n > 40 THEN n - 40 ELSE 0
    IN  [i \in 1..(n - from) |->
             [role |-> kept[from + i].role, content |-> Strip(kept[from + i].content)]]

\* C13: load after save(h) returns the well-formed entries of h, reduced to role and
\* trimmed content, in order, the last 40 of them; saving that result again leaves
\* the snapshot as it is; a saved snapshot holds at most 40 entries, all well formed
\* and trimmed.
SaveLoadRoundTrip ==
    [][/\ (mainPc = "start" /\ mainPc' # "start" /\ savedFrom # <<>>)
              => (~raised' /\ conversation' = ExpectedLoad(savedFrom[1]))
       /\ (mainPc = "idle" /\ mainPc' = "idle" /\ savedFrom # <<>>
               /\ conversation = ExpectedLoad(savedFrom[1]))
              => (snapshot' = snapshot /\ snapshotKind' = snapshotKind)
       /\ savedFrom' # <<>>
              => /\ snapshotKind' = "array"
                 /\ Len(snapshot') <= 40
                 /\ \A i \in 1..Len(snapshot') :
                        /\ WellFormed(snapshot'[i])
                        /\ snapshot'[i].content = Strip(snapshot'[i].content)]_vars

\* C13 witness: a list of 42 entries, a malformed one among them, was saved and
\* loaded: the context is the 40 last of its 41 well-formed entries
SaveLoadTruncatedSeen ==
    /\ mainPc = "idle"
    /\ savedFrom # <<>>
    /\ Len(savedFrom[1]) = 42
    /\ savedFrom[1][2] = E_BLANK
    /\ Len(conversation) = 40
    /\ conversation = snapshot
    /\ conversation[1] = E_REPLY

\* the main thread takes an utterance that is a turn (not ignored)
TakesTurn ==
    /\ mainPc = "idle"
    /\ queue # <<>>
    /\ queue' = Tail(queue)
    /\ Head(queue).type = "voice"
    /\ Strip(Head(queue).text) # <<>>
    /\ ~ReplyRunning

CrashSafe ==
    [][/\ mainPc = "start" => ~raised'
       /\ mainPc' = "stopped" =>
              \A k \in DOMAIN archive :
                  archive[k] # TORN => k \in DOMAIN archive' /\ archive'[k] = archive[k]
       /\ sync'.pc # "failed"]_vars

\* C16: an error of a vault rebuild stays in the export thread (nothing is raised in
\* the controller, whose loop goes on); the thread that failed releases the slot and
\* touches nothing else; a request that finds the slot free starts a thread, and a
\* rebuild that begins starts from an empty vault and the segments there are now
ExportErrorContained ==
    [][/\ ~raised' /\ mainPc' = "idle"
       /\ (bg.pc = "failed" /\ bg' # bg) =>
              /\ bg' = IdleRebuild /\ ~obsidianThread'
              /\ UNCHANGED <<storeVars, vault, queue, contextSummary>>
       /\ (~obsidianThread /\ nExportRequests' > nExportRequests) =>
              obsidianThread' /\ bg'.pc = "start"
       /\ (bg.pc = "start" /\ bg'.pc = "build") =>
              /\ vault' = EmptyVault
              /\ bg'.segs = ListSegments(archive, manifests, summaries)
              /\ bg'.titles = <<>>]_vars

\* a second export thread was started and no rebuild has written its index: the
\* first thread failed and released the slot
ExportRetriedAfterFailure ==
    nExportStarts = 2 /\ bg.pc = "start" /\ ~vault.index.written /\ faults = {}

\* the raw file k has its raw note in the vault v
HasRawNote(v, k) ==
    \E n \in DOMAIN v.rawNotes : n[1] = k[1] /\ v.rawNotes[n].source = k[2]

\* C17: when a rebuild completes, every raw entry that was complete when it was
\* invoked has its raw note in the vault
InvokedEntriesExported ==
    [][/\ (bg.pc # "done" /\ bg'.pc = "done") => \A k \in bg'.before : HasRawNote(vault', k)
       /\ (sync.pc # "done" /\ sync'.pc = "done") =>
              \A k \in sync'.before : HasRawNote(vault', k)]_vars

\* C18: when a rebuild completes, the vault root and its settings folder exist, and
\* every folder, Summary note, raw note and index section of the vault is that of a
\* segment directory or a raw file of the archive
VaultOnlyFromArchive ==
    sync.pc = "done" =>
        /\ vault.exists /\ vault.settings
        /\ vault.folders \subseteq SegmentDirs(archive, manifests, summaries)
        /\ \A t \in DOMAIN vault.summaryNotes :
               \E seg \in SegmentDirs(archive, manifests, summaries) : t = SummaryTitle(seg)
        /\ \A n \in DOMAIN vault.rawNotes :
               <<n[1], vault.rawNotes[n].source>> \in ReadableRaw(archive, n[1])
        /\ \A i \in 1..Len(vault.index.sections) :
               \E seg \in SegmentDirs(archive, manifests, summaries) :
                   vault.index.sections[i].display = Title(ReplaceChar(seg, "-", " "))

\* a rebuild completed on an archive that lacks a segment and a raw file the earlier
\* vault (prevVault) had a folder and a raw note for
StaleVaultRebuilt ==
    /\ sync.pc = "done"
    /\ archive # <<>>
    /\ \E seg \in prevVault.folders : seg \notin SegmentDirs(archive, manifests, summaries)
    /\ \E n \in DOMAIN prevVault.rawNotes :
           <<n[1], prevVault.rawNotes[n].source>> \notin DOMAIN archive

\* the raw notes of the vault v that are in the folder of the segment seg
RawNotesOf(v, seg) == {n \in DOMAIN v.rawNotes : n[1] = seg}

LinkedRaw(folder, line) == <<folder, line.link_path[2].digest[1]>>

\* C20: in the Recent notes of every Summary note of a completed rebuild, a raw
\* entry listed before another one was recorded before it
RecentInRecordedOrder ==
    sync.pc = "done" =>
        \A t \in DOMAIN vault.summaryNotes :
            \A i \in 1..Len(vault.summaryNotes[t].recent) :
                \A j \in (i + 1)..Len(vault.summaryNotes[t].recent) :
                    \E x \in 1..Len(recorded) : \E y \in (x + 1)..Len(recorded) :
                        /\ recorded[x] = LinkedRaw(vault.summaryNotes[t].folder,
                                                   vault.summaryNotes[t].recent[i])
                        /\ recorded[y] = LinkedRaw(vault.summaryNotes[t].folder,
                                                   vault.summaryNotes[t].recent[j])

\* the sequence of texts segs is in the order of sorted(), without repeats
InSortedOrder(segs) == \A i \in 1..Len(segs) : \A j \in (i + 1)..Len(segs) : TextLess(segs[i], segs[j])

\* C21 as stated: when a rebuild completes, the Index note has one section per
\* segment directory of the archive, in sorted order
IndexMatchesArchive ==
    [][(sync.pc # "done" /\ sync'.pc = "done") =>
           /\ Len(vault'.index.sections)
                  = Cardinality(SegmentDirs(archive', manifests', summaries'))
           /\ \A seg \in SegmentDirs(archive', manifests', summaries') :
                  \E i \in 1..Len(vault'.index.sections) :
                      vault'.index.sections[i].display = Title(ReplaceChar(seg, "-", " "))]_vars

\* C21 amended: when a rebuild completes, the Index note is written and has one
\* section per segment directory listed when the rebuild began, in sorted order,
\* each with the display name of its segment and the link to its Summary note, which
\* is in the vault; with no segment listed it has no section (the line "No segments
\* found.")
IndexMatchesListed ==
    [][(sync.pc # "done" /\ sync'.pc = "done") =>
           /\ vault'.index.written
           /\ InSortedOrder(sync'.all)
           /\ \A i \in 1..Len(sync'.all) :
                  sync'.all[i] \in SegmentDirs(archive', manifests', summaries')
           /\ Len(vault'.index.sections) = Len(sync'.all)
           /\ \A i \in 1..Len(sync'.all) :
                  /\ vault'.index.sections[i].display
                         = Title(ReplaceChar(sync'.all[i], "-", " "))
                  /\ vault'.index.sections[i].link = SummaryTitle(sync'.all[i])
                  /\ vault'.index.sections[i].link \in DOMAIN vault'.summaryNotes]_vars

\* a rebuild that listed two segments completed, a third segment directory having
\* been made since
IndexMissedSegment ==
    /\ sync.pc = "done"
    /\ Len(vault.index.sections) >= 2
    /\ \E seg \in SegmentDirs(archive, manifests, summaries) :
           \A i \in 1..Len(sync.all) : sync.all[i] # seg


\* the rules of the list rules that have a keyword occurring in the lowercased text
Hits(rules, content) ==
    {i \in 1..Len(rules) : \E k \in rules[i].keywords : Contains(Lower(content), k)}

\* the classification of a call is the segment of the first rule that matches
FirstHitWins(c) ==
    \A i \in Hits(c.rules, c.content) :
        (\A j \in Hits(c.rules, c.content) : i <= j) => c.result = c.rules[i].segment

\* C22 as stated: the first rule that matches wins; when none matches the result is
\* the screen-context segment if visual context was attached, the default otherwise
ClassifiedByFirstMatch ==
    call.fn = "infer_segment" =>
        /\ FirstHitWins(call)
        /\ Hits(call.rules, call.content) = {} =>
               call.result = IF call.include_screen THEN SCREEN_SEGMENT ELSE DEFAULT_SEGMENT

\* C22 amended: the first rule that matches wins; when none matches the result is
\* the screen-context segment if visual context was attached and the role is user,
\* the default otherwise
ClassifiedByFirstMatchOrRole ==
    call.fn = "infer_segment" =>
        /\ FirstHitWins(call)
        /\ Hits(call.rules, call.content) = {} =>
               call.result = IF call.include_screen /\ call.role = "user"
                             THEN SCREEN_SEGMENT ELSE DEFAULT_SEGMENT

\* a text with keywords of two rules was classified, the later rule's keyword coming
\* first in the text
TwoRulesMatched ==
    /\ call.fn = "infer_segment"
    /\ call.content = <<"b", "u", "g", " ", "p", "l", "a", "n">>
    /\ Cardinality(Hits(call.rules, call.content)) = 2
    /\ call.result = <<"t", "a", "s", "k", "s">>

\* C23: a text that is empty or blank is classified as the default segment
BlankIsDefault ==
    (call.fn = "infer_segment" /\ Strip(call.content) = <<>>) =>
        call.result = DEFAULT_SEGMENT

\* a call of the store was made in this step
Called == call' # call

\* C24: a manifest that exists is never changed; the manifest of a slug is written
\* by the first touch of the slug that can write it, with the display name of that
\* call and the time of the call
ManifestWrittenOnce ==
    [][/\ \A slug \in DOMAIN manifests :
              slug \in DOMAIN manifests' /\ manifests'[slug] = manifests[slug]
       /\ \A slug \in DOMAIN manifests' \ DOMAIN manifests :
              /\ Called
              /\ slug = SegmentSlug(call'.segment)
              /\ manifests'[slug]
                     = [segment |-> call'.segment, slug |-> slug, created |-> clock]
       /\ (Called /\ "write_manifest" \notin faults
               /\ (archive' # archive \/ summaries' # summaries)) =>
              SegmentSlug(call'.segment) \in DOMAIN manifests']_vars

\* a call under one display name has written into a segment whose manifest has
\* another display name
ManifestOfEarlierName ==
    /\ call.fn = "record_raw"
    /\ SegmentSlug(call.segment) \in DOMAIN manifests
    /\ manifests[SegmentSlug(call.segment)].segment # call.segment
    /\ \E k \in DOMAIN archive : archive[k].segment = call.segment

\* C25: after a record_raw under a display name, the manifest of its slug records
\* that display name
ManifestLastWriterWins ==
    [][(Called /\ call'.fn = "record_raw" /\ faults = {}) =>
           manifests'[SegmentSlug(call'.segment)].segment = call'.segment]_vars

\* the summary.json that an update_segment_summary call writes
SummaryOfCall(c, now) ==
    [segment |-> c.segment, slug |-> SegmentSlug(c.segment), summary |-> Strip(c.summary),
     facts |-> ParsedFacts(c.facts, c.summary), updated |-> UpdatedOr(c.updated, now)]

\* an update_segment_summary call with a summary that is not blank
UpdateCalled == Called /\ call'.fn = "update_segment_summary" /\ Strip(call'.summary) # <<>>

\* C26: a segment has one summary.json; an update with a summary that is not blank,
\* whose write succeeds, leaves in it the stripped summary, the facts and the
\* timestamp of that update and nothing else, and leaves the summaries of the other
\* segments as they were; no other step changes a summary
SummaryIsLastUpdate ==
    [][IF UpdateCalled /\ "write_summary" \notin faults
       THEN LET slug == SegmentSlug(call'.segment)
            IN  /\ DOMAIN summaries' = DOMAIN summaries \cup {slug}
                /\ summaries'[slug] = SummaryOfCall(call', clock)
                /\ \A k \in DOMAIN summaries \ {slug} : summaries'[k] = summaries[k]
       ELSE summaries' = summaries]_vars

\* an update has replaced the summary of a segment that had one with other facts
SummaryReplaced ==
    /\ call.fn = "update_segment_summary"
    /\ call.replaced
    /\ Strip(call.summary) # <<>>
    /\ SegmentSlug(call.segment) \in DOMAIN summaries
    /\ summaries[SegmentSlug(call.segment)] = SummaryOfCall(call, clock)
    /\ call.facts.given
    /\ call.updated # NO_UPDATED

\* C27: an update_segment_summary call with an empty or blank summary leaves the
\* raw files, the manifests and the summaries, and so the segment directories, as
\* they were, whether facts are given or not
BlankSummaryChangesNothing ==
    [][(Called /\ call'.fn = "update_segment_summary" /\ Strip(call'.summary) = <<>>) =>
           /\ UNCHANGED <<archive, manifests, summaries>>
           /\ SegmentDirs(archive', manifests', summaries')
                  = SegmentDirs(archive, manifests, summaries)]_vars

\* a blank summary was given with facts for a segment that has no directory
BlankUpdateWithFacts ==
    /\ call.fn = "update_segment_summary"
    /\ Strip(call.summary) = <<>>
    /\ call.summary # <<>>
    /\ call.facts.given
    /\ SegmentSlug(call.segment) \notin SegmentDirs(archive, manifests, summaries)

\* a line begins with a list marker: a bullet, or a number and a dot, then a space
HasListMarker(t) ==
    \/ Len(t) >= 2 /\ t[1] \in {"-", "*"} /\ t[2] \in WS
    \/ \E n \in 1..(Len(t) - 2) :
           /\ \A i \in 1..n : t[i] \in DIGITS
           /\ t[n + 1] = "."
           /\ t[n + 2] \in WS

\* the text of a line after its list marker
AfterMarker(t) ==
    IF t[1] \in {"-", "*"} THEN Strip(Tail(t))
    ELSE Strip(SubSeq(t, IndexOf(t, {"."}) + 1, Len(t)))

\* the facts stored for the segment of the last call
StoredFacts == summaries[SegmentSlug(call.segment)].facts

\* C28: when no facts are given, the text that follows the list marker of a line of
\* the summary is among the stored facts, as it stands or in another case
FactsKeepTextAfterMarker ==
    (/\ call.fn = "update_segment_summary"
     /\ ~call.facts.given
     /\ Strip(call.summary) # <<>>) =>
        \A i \in 1..Len(SplitLines(call.summary)) :
            LET t == Strip(SplitLines(call.summary)[i])
            IN  (HasListMarker(t) /\ AfterMarker(t) # <<>>) =>
                    \E j \in 1..Len(StoredFacts) : Lower(StoredFacts[j]) = Lower(AfterMarker(t))

\* the tokens of the lowercased text, their apostrophes removed
CleanTokens(text) ==
    LET tokens == Tokens(Lower(text))
    IN  [i \in 1..Len(tokens) |-> SelectSeq(tokens[i], LAMBDA c : c # "'")]

\* the tokens that are no stop words and have more than 3 characters
KeptTokens(text) ==
    SelectSeq(CleanTokens(text), LAMBDA w : w \notin STOP_WORDS /\ Len(w) > 3)

\* where a word is first seen in a sequence of words
FirstSeen(q, w) == CHOOSE p \in 1..Len(q) : q[p] = w /\ \A r \in 1..(p - 1) : q[r] # w

KEYWORDS_OF_EXAMPLE ==
    <<<<"d", "e", "p", "l", "o", "y">>,
      <<"s", "c", "r", "i", "p", "t">>,
      <<"b", "r", "o", "k", "e">>,
      <<"m", "e", "e", "t", "i", "n", "g">>,
      <<"n", "o", "t", "e", "s">>>>

\* C29: the keywords of a text are tokens of the lowercased text that are no stop
\* words and have more than 3 characters; they are the first 5 distinct ones, in
\* the order in which they are first seen; those of the sentence of the
\* specification are deploy, script, broke, meeting, notes
KeywordsAsStated ==
    call.fn = "extract_keywords" =>
        LET r == call.result
            q == KeptTokens(call.text)
            distinct == {q[p] : p \in 1..Len(q)}
        IN  /\ Len(r) = IF Cardinality(distinct) < 5 THEN Cardinality(distinct) ELSE 5
            /\ \A i, j \in 1..Len(r) : i # j => r[i] # r[j]
            /\ \A i \in 1..Len(r) : r[i] \in distinct
            /\ \A i, j \in 1..Len(r) : i < j => FirstSeen(q, r[i]) < FirstSeen(q, r[j])
            /\ \A w \in distinct :
                   (\A i \in 1..Len(r) : r[i] # w) =>
                       \A i \in 1..Len(r) : FirstSeen(q, r[i]) < FirstSeen(q, w)
            /\ call.text = KEYWORD_EXAMPLE => r = KEYWORDS_OF_EXAMPLE

\* the keywords of the sentence of the specification were extracted
KeywordsOfExample ==
    /\ call.fn = "extract_keywords"
    /\ call.text = KEYWORD_EXAMPLE
    /\ call.result = KEYWORDS_OF_EXAMPLE

\* a turn has a role of ROLES and a content that is not blank
TurnOk(e) == e.role \in ROLES /\ Strip(e.content) # <<>>

\* C30: every turn of the rolling context and every raw entry of the archive has
\* the role user or assistant and a content that is not empty once trimmed
TurnsWellFormed ==
    /\ \A i \in 1..Len(conversation) : TurnOk(conversation[i])
    /\ \A k \in DOMAIN archive : archive[k] # TORN => TurnOk(archive[k])

\* a context loaded from a file with entries that are not turns has got a reply
\* error appended, after a compaction
TurnsAfterLoadAndError ==
    /\ [role |-> "assistant", content |-> TXT_HI] \in {conversation[i] : i \in 1..Len(conversation)}
    /\ conversation[Len(conversation)].content = ERROR_PREFIX \o TXT_OCR
    /\ \E k \in DOMAIN archive : archive[k] # TORN /\ archive[k].segment = SYSTEM_SEGMENT
    /\ compaction.n > 0

\* a step of a rebuild: of the export thread once it runs, or of the main thread
RebuildActs == (bg.pc # "idle" /\ bg' # bg) \/ sync' # sync

\* C31: the vault changes in steps of a rebuild only, and a step of a rebuild leaves
\* the raw entries, the manifests, the summaries, the snapshot and the rolling
\* context as they were; so no append, summary update or compaction changes the vault
RebuildAndStoreApart ==
    [][/\ vault' # vault => RebuildActs
       /\ RebuildActs =>
              UNCHANGED <<archive, manifests, summaries, snapshot, snapshotKind, conversation>>]_vars

\* a rebuild has written the index while raw entries, a manifest, a summary, a
\* snapshot and a rolling context were there
RebuildBesideStore ==
    /\ bg.pc = "done"
    /\ vault.index.written
    /\ vault.rawNotes # <<>>
    /\ archive # <<>>
    /\ manifests # <<>>
    /\ summaries # <<>>
    /\ snapshot # <<>>
    /\ conversation # <<>>

\* the step appends one turn to the rolling context and writes it as one raw file,
\* and the snapshot is not written
AppendsUnsaved(role, content) ==
    /\ conversation' = Append(conversation, [role |-> role, content |-> content])
    /\ nRecorded' = nRecorded + 1
    /\ \E k \in DOMAIN archive' :
           /\ DOMAIN archive' = DOMAIN archive \cup {k}
           /\ archive'[k].role = role
           /\ archive'[k].content = content
           /\ \A j \in DOMAIN archive \ {k} : archive'[j] = archive[j]
    /\ UNCHANGED <<snapshot, snapshotKind, savedFrom>>

\* C32: on a bye or stop utterance the utterance is appended and archived, then the
\* reply is appended and archived, the snapshot being written by neither; then the
\* summarizer is given the whole rolling context with the two turns, and the
\* snapshot written afterwards is the collapsed or the truncated context
ByeAppendsThenSummarizes ==
    [][/\ (mainPc = "idle" /\ mainPc' = "cmd_reply") =>
              AppendsUnsaved("user", Strip(Head(queue).text))
       /\ (mainPc = "cmd_reply" /\ mainPc' = "cmd_summarize") =>
              AppendsUnsaved("assistant", PendingReply)
       /\ (mainPc = "cmd_summarize" /\ mainPc' = "idle") =>
              /\ compaction'.n = compaction.n + 1
              /\ compaction'.history = conversation
              /\ Len(conversation) >= 2
              /\ conversation[Len(conversation) - 1].role = "user"
              /\ conversation[Len(conversation)]
                     = [role |-> "assistant",
                        content |-> CommandReply(CommandType(
                                        conversation[Len(conversation) - 1].content))]
              /\ conversation' = IF compaction'.summary # <<>>
                                 THEN <<[role |-> "assistant", content |-> compaction'.summary]>>
                                 ELSE LastN(conversation, TRIM_KEEP)
              /\ savedFrom' = <<conversation'>>
              /\ snapshot' = conversation'
              /\ UNCHANGED archive]_vars

\* a bye was compacted after an exchange: the summarizer was given four turns and
\* the snapshot holds the one turn of the digest
ByeCompactedAfterExchange ==
    /\ mainPc = "idle"
    /\ compaction.n > 0
    /\ Len(compaction.history) = 4
    /\ compaction.summary # <<>>
    /\ snapshot = <<[role |-> "assistant", content |-> compaction.summary]>>
    /\ conversation = snapshot

\* C33: a call of append_message appends one turn, with the content trimmed, to the
\* rolling context and leaves the turns before it; it writes one raw file of that
\* turn under the segment given, or the default one, with auto_save set or not; it
\* does not summarize: no compaction, no summary and no context summary comes of it;
\* the snapshot is written when auto_save is set and only then
AppendOnlyAppends ==
    [][(Called /\ call'.fn = "append_message") =>
           LET turn == [role |-> call'.role, content |-> Strip(call'.content)]
               segment == IF call'.segment = <<>> THEN DEFAULT_SEGMENT ELSE call'.segment
           IN  /\ conversation' = Append(conversation, turn)
               /\ nRecorded' = nRecorded + 1
               /\ \E k \in DOMAIN archive' :
                      /\ DOMAIN archive' = DOMAIN archive \cup {k}
                      /\ k[1] = SegmentSlug(segment)
                      /\ archive'[k].role = turn.role
                      /\ archive'[k].content = turn.content
                      /\ archive'[k].segment = segment
                      /\ \A j \in DOMAIN archive \ {k} : archive'[j] = archive[j]
               /\ UNCHANGED <<compaction, summaries, contextSummary>>
               /\ IF call'.auto_save
                  THEN snapshot' = LastN(Sanitize(conversation'), MAX_MESSAGES)
                  ELSE UNCHANGED <<snapshot, snapshotKind>>]_vars

\* a turn was appended without auto_save after one with it: two turns, two raw
\* files, and a snapshot of the first turn
AppendedWithoutAutosave ==
    /\ call.fn = "append_message"
    /\ ~call.auto_save
    /\ Len(conversation) = 2
    /\ Cardinality(DOMAIN archive) = 2
    /\ snapshot = <<conversation[1]>>

\* C34: an export request whose second or third read of the export thread's slot
\* finds it cleared by the export thread, after the first read found a thread in
\* it, raises nothing: a non-blocking request returns, having started an export or
\* not, and a blocking one goes on to the rebuild on the main thread
ExportRaceRaisesNothing ==
    [][(mainPc \in {"nb_query", "b_query", "b_join"} /\ ~obsidianThread /\ mainPc' # mainPc) =>
           IF mainPc = "nb_query"
           THEN /\ mainPc' = "idle"
                /\ \/ nExportStarts' = nExportStarts + 1 /\ obsidianThread'
                   \/ UNCHANGED <<nExportStarts, obsidianThread, bg>>
           ELSE mainPc' \in {"sd_join", "sd_export"}]_vars

\* the result and error signals of thread t that are queued in q
PendingIn(q, t) ==
    Cardinality({i \in 1..Len(q) : q[i].thread = t /\ q[i].type \in {"result", "error"}})

\* thread t has returned, its signals have been handled and it is not in the slot
Settled(t) ==
    /\ t \in DOMAIN threads
    /\ threads[t].pc = "finished"
    /\ \A i \in 1..Len(queue) : queue[i].thread # t
    /\ replyThread # t

\* the outcome of the signal e: the reply appended, the error appended under
\* 'system', or nothing for an empty reply or an empty error
OutcomeOf(e) ==
    IF e.text = <<>>
    THEN UNCHANGED <<conversation, archive, snapshot>>
    ELSE IF e.type = "result"
    THEN conversation' = Append(conversation, [role |-> "assistant", content |-> Strip(e.text)])
    ELSE /\ conversation' = Append(conversation, [role |-> "assistant",
                                                  content |-> ERROR_PREFIX \o e.text])
         /\ \E k \in DOMAIN archive' :
                /\ k[1] = SegmentSlug(SYSTEM_SEGMENT)
                /\ archive'[k].segment = SYSTEM_SEGMENT
                /\ archive'[k].content = ERROR_PREFIX \o e.text

\* C35: with a reply oracle that returns or fails and an event loop that runs, an
\* utterance that started reply thread t has one outcome: the thread queues one
\* result or error signal, when it stops running and not before; the signal is
\* handled once, by appending the reply, by appending '[error] ...' under 'system',
\* or by appending nothing when it is empty; no assistant turn is appended otherwise;
\* and in the end the thread has finished, nothing of it is queued and the slot does
\* not hold it, so that the guard of the next utterance does not see it
ReplyHasOneOutcome ==
    /\ [][\A t \in DOMAIN threads :
              /\ PendingIn(queue', t) <= 1
              /\ PendingIn(queue', t) > PendingIn(queue, t) =>
                     threads[t].pc = "running" /\ threads'[t].pc = "emitted"
              /\ (threads[t].pc = "running" /\ threads'[t].pc # "running") =>
                     PendingIn(queue', t) = 1
              /\ PendingIn(queue', t) < PendingIn(queue, t) =>
                     Head(queue).thread = t /\ OutcomeOf(Head(queue))
              /\ (threads[t].pc = threads'[t].pc /\ PendingIn(queue', t) = PendingIn(queue, t)
                  /\ \A u \in DOMAIN threads : PendingIn(queue', u) >= PendingIn(queue, u)) =>
                     \/ conversation' = conversation
                     \/ conversation'[Len(conversation')].role = "user"]_vars
    /\ \A t \in 1..MaxLiveVoice : (Len(threads) >= t) ~> (Settled(t) /\ replyThread = 0)

\* two utterances were answered, one by a reply and one by an error, and no thread
\* is left in the slot
RepliedAndFailed ==
    /\ Len(threads) >= 2
    /\ \A t \in DOMAIN threads : Settled(t)
    /\ replyThread = 0
    /\ \E i \in 1..Len(conversation) : conversation[i].content = ERROR_PREFIX \o TXT_OCR
    /\ \E i \in 1..Len(conversation) :
           conversation[i].role = "assistant" /\ conversation[i].content = TXT_HI

\* _handle_voice_text is run on an utterance
VoiceHandled ==
    mainPc = "idle" /\ queue # <<>> /\ Head(queue).type = "voice" /\ queue' = Tail(queue)

\* C36: an utterance handled while a reply thread is running, a bye command
\* included, changes neither the rolling context, the raw archive, the snapshot nor
\* the last segment, starts no reply thread, and brings no compaction and no
\* export request
VoiceWhileReplyingDropped ==
    [][(VoiceHandled /\ \E t \in DOMAIN threads : threads[t].pc # "finished") =>
           UNCHANGED <<conversation, archive, nRecorded, snapshot, snapshotKind, savedFrom,
                       lastSegment, threads, replyThread, compaction, contextSummary,
                       nExportRequests, nExportStarts, obsidianThread>>]_vars

\* the segment of the first of SEGMENT_RULES
SESSION_CONTROL == SEGMENT_RULES[1].segment

\* C37: when a bye or stop command compacts the context, the digest, if there is
\* one, becomes the summary of the segment 'session-control', and the summary of no
\* other segment is written or changed, whatever else the command and the turns
\* summarized are about; with no digest no summary changes
ByeDigestUnderSessionControl ==
    [][(mainPc = "cmd_summarize" /\ mainPc' = "idle") =>
           LET slug == SegmentSlug(SESSION_CONTROL) IN
           /\ lastSegment = SESSION_CONTROL
           /\ IF compaction'.summary # <<>>
              THEN /\ slug \in DOMAIN summaries'
                   /\ summaries'[slug].segment = SESSION_CONTROL
                   /\ summaries'[slug].summary = compaction'.summary
                   /\ DOMAIN summaries' = DOMAIN summaries \cup {slug}
                   /\ \A s \in DOMAIN summaries \ {slug} : summaries'[s] = summaries[s]
              ELSE summaries' = summaries]_vars

\* 'bug bye' compacted an exchange about a bug, filed under 'work': the digest is
\* the summary of 'session-control' and 'work' has no summary
BugByeDigestStored ==
    /\ mainPc = "idle"
    /\ compaction.n > 0
    /\ compaction.summary # <<>>
    /\ \E i \in 1..Len(compaction.history) : compaction.history[i].content = TXT_BUG_BYE
    /\ \E k \in DOMAIN archive : archive[k].segment = SEGMENT_RULES[3].segment
    /\ DOMAIN summaries = {SegmentSlug(SESSION_CONTROL)}
    /\ summaries[SegmentSlug(SESSION_CONTROL)].summary = compaction.summary

\* every link of the vault v resolves, all being the segments the rebuild listed:
\* the Recent notes lines of a Summary note to raw notes in the folder of its
\* segment, the backlink of a raw note to a Summary note, the links of the Index
\* note to Summary notes; and no two segments have the same Summary note file
LinksResolve(v, all) ==
    /\ \A t \in DOMAIN v.summaryNotes :
           \A i \in 1..Len(v.summaryNotes[t].recent) :
               /\ v.summaryNotes[t].recent[i].link_path \in DOMAIN v.rawNotes
               /\ v.summaryNotes[t].recent[i].link_path[1] = v.summaryNotes[t].folder
               /\ v.summaryNotes[t].folder \in v.folders
    /\ \A n \in DOMAIN v.rawNotes : v.rawNotes[n].summary \in DOMAIN v.summaryNotes
    /\ \A i \in 1..Len(v.index.sections) :
           v.index.sections[i].link # <<>> =>
               v.index.sections[i].link \in DOMAIN v.summaryNotes
    /\ \A i \in 1..Len(all) : \A j \in 1..Len(all) :
           i # j => SummaryTitle(all[i]) # SummaryTitle(all[j])

\* C38: when a rebuild completes, on the export thread or on the main thread, every
\* link of the vault resolves and no two segments share a Summary note file
LinksResolveAtCompletion ==
    [][/\ (bg.pc # "done" /\ bg'.pc = "done") => LinksResolve(vault', bg'.all)
       /\ (sync.pc # "done" /\ sync'.pc = "done") => LinksResolve(vault', sync'.all)]_vars

\* the main thread is in the shutdown sequence, from _finalize_conversation on
InShutdownSequence == mainPc \in {"sd_wait", "sd_finalize", "sd_join", "sd_export"}

\* C39: the shutdown sequence is entered by the first shutdown request and by
\* nothing else, and is not entered again once left; handling a later request
\* finalizes nothing, writes no summary, no snapshot and no raw file, rebuilds
\* nothing and starts no export
ShutdownRunsOnce ==
    [][/\ (InShutdownSequence' /\ ~InShutdownSequence) =>
              ~shutdownInProgress /\ shutdownInProgress'
       /\ shutdownInProgress => shutdownInProgress'
       /\ (Called /\ call'.fn = "_handle_shutdown_request") =>
              /\ shutdownInProgress
              /\ UNCHANGED <<conversation, contextSummary, summaries, manifests, archive,
                             snapshot, snapshotKind, savedFrom, vault, bg, sync, mainPc,
                             obsidianThread, nExportRequests, nExportStarts,
                             shutdownInProgress>>]_vars

\* a second shutdown request was handled after the first one had finalized the
\* conversation into a snapshot of one digest and rebuilt the vault
SecondShutdownHandled ==
    /\ call.fn = "_handle_shutdown_request"
    /\ mainPc = "quit"
    /\ sync.pc = "done"
    /\ vault.index.written
    /\ Len(snapshot) = 1
    /\ snapshot = conversation
    /\ summaries # <<>>
====
